---- MODULE Spec2Model ----
(***************************************************************************)
(* Model of the cryptobot core: the Signal Engine (core/strategy.py,       *)
(* class Strategy) and the Backtest Simulator (backtest.py, class          *)
(* Backtester).                                                            *)
(*                                                                         *)
(* Floats are modelled as fixed-point integers with three decimals         *)
(* (10.000 is 10000); rates that are smaller than 0.001 (spread, slippage, *)
(* fee) are modelled in units of 0.00001.  NaN is a distinguished value    *)
(* that makes every comparison false and propagates through arithmetic,    *)
(* Python's None is a distinguished value as well.  Timestamps are day     *)
(* numbers: the explicit rows of a DataFrame carry the index 1..n, the     *)
(* warm-up rows in front of them carry the index 0, -1, ...                *)
(***************************************************************************)
EXTENDS Integers, Sequences, FiniteSets, TLC

MaxBars == 4
MaxPollBars == 2

S == 1000
RS == 100000
NaN == -999999999
None == -1

VARIABLES data, config, now, strategy,
          pc, i, position, capital, final_capital, trades, trade_id,
          bt, driver, lastCall, runs, first, metrics,
          heap, instances, solo, db, opened, history, live, paper, call, limiter, fetch

vars == <<data, config, now, strategy,
          pc, i, position, capital, final_capital, trades, trade_id,
          bt, driver, lastCall, runs, first, metrics, heap, instances, solo,
                 db, opened, history, live, paper, call, limiter, fetch>>

-----------------------------------------------------------------------------
(* Float arithmetic *)

IsNaN(x) == x = NaN

FAdd(a, b) == IF IsNaN(a) \/ IsNaN(b) THEN NaN ELSE a + b

FSub(a, b) == IF IsNaN(a) \/ IsNaN(b) THEN NaN ELSE a - b

FMul(a, b) == IF IsNaN(a) \/ IsNaN(b) THEN NaN ELSE (a * b) \div S

FDiv(a, b) == IF IsNaN(a) \/ IsNaN(b) THEN NaN ELSE (a * S) \div b

RMul(a, r) == (a * r) \div RS

Lt(a, b) == ~IsNaN(a) /\ ~IsNaN(b) /\ a < b

Gt(a, b) == ~IsNaN(a) /\ ~IsNaN(b) /\ a > b

PyMaxLast(a, b) == b

PyMax(a, b) == IF b > a THEN b ELSE a

PyMin(a, b) == IF IsNaN(a) \/ IsNaN(b) THEN a ELSE IF b < a THEN b ELSE a

MaxOf(set) == CHOOSE x \in set : \A y \in set : y <= x

-----------------------------------------------------------------------------
(* Configuration: Strategy.__init__ and the "general" section *)

IchimokuPeriod == 52

DefaultSpread == 15
DefaultSlippage == 10

BaseConfig ==
  [ sma_short |-> 10, sma_long |-> 50, rsi_period |-> 14,
    macd_fast |-> 12, macd_slow |-> 26, macd_signal |-> 9,
    atr_period |-> 14, adx_period |-> 14, bollinger_period |-> 20,
    volume_sma_period |-> 20,
    lateral_adx_threshold |-> 20, adx_threshold |-> 25,
    rsi_threshold |-> 70, macd_threshold |-> 0,
    support_margin |-> 1000, resistance_margin |-> 1000,
    trailing_stop_percentage |-> 50,
    stop_loss_atr_multiplier |-> 2000, stop_loss_multiplier |-> 1000,
    take_profit_multiplier |-> 2000,
    time_based_stop_days |-> 2, time_based_stop_loss_percent |-> -5,
    use_supertrend |-> TRUE, use_adx_positive |-> TRUE,
    use_macd_positive |-> TRUE,
    lateral_mode |-> TRUE ]

Configs == { BaseConfig, [BaseConfig EXCEPT !.use_supertrend = FALSE] }

FreshStrategy ==
  [ last_entry_time |-> None, position_open |-> FALSE,
    highest_price |-> None, entry_price |-> None,
    is_range_trading |-> FALSE ]

min_periods(cfg) ==
  MaxOf({cfg.sma_long, cfg.rsi_period, cfg.macd_slow, cfg.atr_period,
         cfg.adx_period, cfg.bollinger_period, IchimokuPeriod})

-----------------------------------------------------------------------------
(* Bars.  The enriched rows are inputs: the indicator columns hold any     *)
(* value the rolling computations can produce, NaN included.               *)

TrendUp ==
  [ Close |-> 10000, Volume |-> 150000, volume_sma |-> 100000,
    adx |-> 30000, rsi |-> 55000, sma_short |-> 10200, sma_long |-> 10000,
    macd |-> 300, macd_signal |-> 100, atr |-> 500, atr_sma |-> 400,
    bollinger_lower |-> 9000, bollinger_upper |-> 11000, supertrend |-> 0 ]

RangeDip ==
  [ Close |-> 8000, Volume |-> 200000, volume_sma |-> 100000,
    adx |-> 15000, rsi |-> 30000, sma_short |-> 9500, sma_long |-> 10000,
    macd |-> 0 - 200, macd_signal |-> 0 - 100, atr |-> 600, atr_sma |-> 500,
    bollinger_lower |-> 9000, bollinger_upper |-> 11000, supertrend |-> 0 ]

Rally ==
  [ Close |-> 12000, Volume |-> 100000, volume_sma |-> 100000,
    adx |-> 30000, rsi |-> 75000, sma_short |-> 11000, sma_long |-> 10000,
    macd |-> 500, macd_signal |-> 200, atr |-> 500, atr_sma |-> 500,
    bollinger_lower |-> 9500, bollinger_upper |-> 11500, supertrend |-> 1 ]

MacdDrop ==
  [ Close |-> 9500, Volume |-> 100000, volume_sma |-> 100000,
    adx |-> 30000, rsi |-> 50000, sma_short |-> 10100, sma_long |-> 10000,
    macd |-> 0, macd_signal |-> 200, atr |-> 500, atr_sma |-> 500,
    bollinger_lower |-> 9000, bollinger_upper |-> 11000, supertrend |-> 1 ]

NaNBar ==
  [ Close |-> 10000, Volume |-> 100000, volume_sma |-> NaN,
    adx |-> NaN, rsi |-> NaN, sma_short |-> NaN, sma_long |-> NaN,
    macd |-> NaN, macd_signal |-> NaN, atr |-> NaN, atr_sma |-> NaN,
    bollinger_lower |-> NaN, bollinger_upper |-> NaN, supertrend |-> 0 ]

BarSet == { TrendUp, RangeDip, Rally, MacdDrop, NaNBar }

(* Further bars for the entry and exit rules: a trend bar with two of the  *)
(* five secondary conditions, a range bar inside the 2% cushion above the  *)
(* lower band, a fall below the stops and a rise above the take-profit and *)
(* the upper band.                                                         *)
TrendWeak ==
  [ Close |-> 10000, Volume |-> 100000, volume_sma |-> 100000,
    adx |-> 30000, rsi |-> 55000, sma_short |-> 10200, sma_long |-> 10000,
    macd |-> 300, macd_signal |-> 100, atr |-> 400, atr_sma |-> 400,
    bollinger_lower |-> 9000, bollinger_upper |-> 11000, supertrend |-> 0 ]

RangeEdge ==
  [ Close |-> 9100, Volume |-> 200000, volume_sma |-> 100000,
    adx |-> 15000, rsi |-> 30000, sma_short |-> 9500, sma_long |-> 10000,
    macd |-> 0 - 200, macd_signal |-> 0 - 300, atr |-> 600, atr_sma |-> 500,
    bollinger_lower |-> 9000, bollinger_upper |-> 11000, supertrend |-> 1 ]

Crash ==
  [ Close |-> 8500, Volume |-> 100000, volume_sma |-> 100000,
    adx |-> 30000, rsi |-> 40000, sma_short |-> 10100, sma_long |-> 10000,
    macd |-> 300, macd_signal |-> 100, atr |-> 500, atr_sma |-> 500,
    bollinger_lower |-> 8000, bollinger_upper |-> 11000, supertrend |-> 1 ]

TakeProfit ==
  [ Close |-> 12500, Volume |-> 100000, volume_sma |-> 100000,
    adx |-> 30000, rsi |-> 65000, sma_short |-> 11000, sma_long |-> 10000,
    macd |-> 500, macd_signal |-> 200, atr |-> 500, atr_sma |-> 500,
    bollinger_lower |-> 9500, bollinger_upper |-> 11500, supertrend |-> 1 ]

RuleBars == { TrendUp, TrendWeak, RangeEdge, MacdDrop, Crash, TakeProfit }

MaxRuleBars == 3

(* use_supertrend, use_adx_positive and use_macd_positive are keys of the  *)
(* "strategy" section; lateral_mode is read from the "general" section     *)
(* (general_config.get("lateral_mode", True)).                             *)
RuleConfigs ==
  { BaseConfig,
    [ BaseConfig EXCEPT !.lateral_mode = FALSE ],
    [ BaseConfig EXCEPT !.use_supertrend = FALSE,
                        !.use_adx_positive = FALSE,
                        !.use_macd_positive = FALSE ] }

SeqsUpTo(set, n) == UNION { [1..k -> set] : k \in 0..n }

(* A DataFrame: warm NaN rows followed by the explicit rows; indicators   *)
(* says whether the indicator columns have been added.                     *)
DataFrame(rows, warm) == [ rows |-> rows, warm |-> warm, indicators |-> FALSE ]

len(d) == d.warm + Len(d.rows)

NeverEmpty(d) == FALSE

empty(d) == len(d) = 0

Index(d) == (1 - d.warm) .. Len(d.rows)

get_loc(d, idx) == idx + d.warm - 1

(* the row at a 0-based position, as iterrows / loc hand it out *)
iloc(d, p) ==
  IF p < d.warm
  THEN [ name |-> p - d.warm + 1, entry_signal_generated |-> FALSE,
         exit_signal_generated |-> FALSE ] @@ NaNBar
  ELSE [ name |-> p - d.warm + 1, entry_signal_generated |-> FALSE,
         exit_signal_generated |-> FALSE ] @@ d.rows[p - d.warm + 1]

loc(d, idx) == iloc(d, get_loc(d, idx))

LastIndexFirst(d) == 1

LastIndex(d) == Len(d.rows)

(* Strategy.calculate_indicators: the columns are added in place unless    *)
(* the data is shorter than the longest lookback; the rows the caller      *)
(* holds are never dropped (the dropna result is bound to a local name).   *)
calculate_indicators(d, cfg) ==
  IF len(d) < min_periods(cfg) THEN d ELSE [d EXCEPT !.indicators = TRUE]

-----------------------------------------------------------------------------
(* Strategy.entry_signal *)

ToF(n) == n * S

FutureCandleBeyondNext(row, clock) == row.name > clock + 1

FutureCandle(row, clock) == row.name > clock

EntryGuardNoPosition(s, row) == row.entry_signal_generated

EntryGuard(s, row) == row.entry_signal_generated \/ s.position_open

OutdatedCandlePrevious(row, d, is_backtest) ==
  ~is_backtest /\ row.name # LastIndex(d) - 1

OutdatedCandle(row, d, is_backtest) ==
  ~is_backtest /\ row.name # LastIndex(d)

NoPreviousRow(row, d) == row.name \notin Index(d) \/ get_loc(d, row.name) < 1

lateral_market(row, cfg) == Lt(row.adx, ToF(cfg.lateral_adx_threshold))

range_conditions_no_cushion(row, cfg) ==
  [ lateral_market |-> lateral_market(row, cfg),
    buy_near_support |->
      Lt(row.Close, FMul(row.bollinger_lower, cfg.support_margin)),
    volume_confirmation |-> Gt(row.Volume, FMul(1500, row.volume_sma)),
    rsi_not_oversold |-> Gt(row.rsi, ToF(20)) ]

range_conditions(row, cfg) ==
  [ lateral_market |-> lateral_market(row, cfg),
    buy_near_support |->
      Lt(row.Close, FMul(FMul(row.bollinger_lower, cfg.support_margin), 1020)),
    volume_confirmation |-> Gt(row.Volume, FMul(1500, row.volume_sma)),
    rsi_not_oversold |-> Gt(row.rsi, ToF(20)) ]

trend_conditions(row, prev, cfg) ==
  [ sma_crossover |-> Gt(row.sma_short, row.sma_long)
                      /\ Gt(prev.sma_short, prev.sma_long),
    macd_above_signal |->
      Gt(row.macd, FSub(row.macd_signal, ToF(cfg.macd_threshold))),
    rsi_below_threshold |-> Lt(row.rsi, ToF(cfg.rsi_threshold)),
    volume_above_sma |-> Gt(row.Volume, FMul(1200, row.volume_sma)),
    supertrend_uptrend |-> ~cfg.use_supertrend \/ row.supertrend = 1,
    adx_trend |-> ~cfg.use_adx_positive \/ Gt(row.adx, ToF(cfg.adx_threshold)),
    macd_positive |-> ~cfg.use_macd_positive \/ Gt(row.macd, 0),
    volatility_filter |-> Gt(row.atr, row.atr_sma) ]

Count(b) == IF b THEN 1 ELSE 0

range_signal(row, cfg) ==
  LET c == range_conditions(row, cfg)
  IN c.lateral_market /\ c.buy_near_support /\ c.volume_confirmation
     /\ c.rsi_not_oversold

trend_signal_two(row, prev, cfg) ==
  LET c == trend_conditions(row, prev, cfg)
  IN c.sma_crossover /\ c.macd_above_signal /\ c.rsi_below_threshold
     /\ Count(c.volume_above_sma) + Count(c.supertrend_uptrend)
        + Count(c.adx_trend) + Count(c.macd_positive)
        + Count(c.volatility_filter) >= 2

trend_signal(row, prev, cfg) ==
  LET c == trend_conditions(row, prev, cfg)
      trend_main_pass == c.sma_crossover /\ c.macd_above_signal
                         /\ c.rsi_below_threshold
      trend_secondary_pass ==
        Count(c.volume_above_sma) + Count(c.supertrend_uptrend)
        + Count(c.adx_trend) + Count(c.macd_positive)
        + Count(c.volatility_filter) >= 3
  IN trend_main_pass /\ trend_secondary_pass

RangeModeUntoggled(row, cfg) == lateral_market(row, cfg)

RangeMode(row, cfg) == cfg.lateral_mode /\ lateral_market(row, cfg)

(* the state entry_signal leaves behind once the mode has been decided *)
EntryStateNoPeak(s, row, signal, is_range) ==
  IF signal
  THEN [ last_entry_time |-> row.name, position_open |-> TRUE,
         highest_price |-> s.highest_price, entry_price |-> row.Close,
         is_range_trading |-> is_range ]
  ELSE [ s EXCEPT !.is_range_trading = is_range ]

EntryState(s, row, signal, is_range) ==
  IF signal
  THEN [ last_entry_time |-> row.name, position_open |-> TRUE,
         highest_price |-> row.Close, entry_price |-> row.Close,
         is_range_trading |-> is_range ]
  ELSE [ s EXCEPT !.is_range_trading = is_range ]

(* Returns the signal and the engine state left behind.  A row without the *)
(* indicator columns raises KeyError at line 274, which the handler at     *)
(* line 326 turns into False.  The row's entry_signal_generated flag is    *)
(* never set (line 317 is commented out).                                  *)
entry_signal(s, row, d, is_backtest, cfg, clock) ==
  LET no == [ signal |-> FALSE, state |-> s ]
  IN IF FutureCandle(row, clock) THEN no
     ELSE IF EntryGuard(s, row) THEN no
     ELSE IF OutdatedCandle(row, d, is_backtest) THEN no
     ELSE IF NoPreviousRow(row, d) THEN no
     ELSE IF ~d.indicators THEN no
     ELSE LET prev == iloc(d, get_loc(d, row.name) - 1)
              signal == IF RangeMode(row, cfg)
                        THEN range_signal(row, cfg)
                        ELSE trend_signal(row, prev, cfg)
              is_range == RangeMode(row, cfg) /\ signal
          IN [ signal |-> signal,
               state |-> EntryState(s, row, signal, is_range) ]

-----------------------------------------------------------------------------
(* Strategy.exit_signal *)

ExitGuardNoSameBar(s, row) ==
  row.exit_signal_generated \/ ~s.position_open

ExitGuard(s, row) ==
  row.exit_signal_generated \/ ~s.position_open
  \/ s.last_entry_time = row.name

trailing_stop(highest, cfg) == FMul(highest, S - cfg.trailing_stop_percentage)

stop_loss(s, row, cfg) ==
  LET sl == FSub(s.entry_price,
                 FMul(FMul(cfg.stop_loss_atr_multiplier, row.atr),
                      cfg.stop_loss_multiplier))
      dynamic_stop_loss ==
            FSub(s.entry_price,
                 FMul(FMul(cfg.stop_loss_atr_multiplier, row.atr),
                      cfg.stop_loss_multiplier))
  IN PyMin(sl, dynamic_stop_loss)

take_profit(s, row, cfg) ==
  FAdd(s.entry_price,
       FMul(FMul(cfg.stop_loss_atr_multiplier, row.atr),
            cfg.take_profit_multiplier))

supertrend_exit(row, cfg) == cfg.use_supertrend /\ row.supertrend = 0

time_based_stop(s, row, cfg) ==
  LET duration_ms == (row.name - s.last_entry_time) * 24 * 60 * 60 * 1000
      profit_percent == FDiv(row.Close - s.entry_price, s.entry_price) * 100
  IN duration_ms < cfg.time_based_stop_days * 24 * 60 * 60 * 1000
     /\ profit_percent < ToF(cfg.time_based_stop_loss_percent)

sell_near_resistance(row, cfg) ==
  Gt(row.Close, FMul(row.bollinger_upper, cfg.resistance_margin))

range_exit_or_macd(s, row, cfg) ==
  s.is_range_trading
  /\ (sell_near_resistance(row, cfg)
      \/ Lt(row.macd, FSub(row.macd_signal, ToF(cfg.macd_threshold))))

range_exit(s, row, cfg) == s.is_range_trading /\ sell_near_resistance(row, cfg)

trend_exit_no_macd(s, highest, row, cfg) ==
  \/ Lt(row.Close, trailing_stop(highest, cfg))
  \/ Lt(row.Close, stop_loss(s, row, cfg))
  \/ Gt(row.Close, take_profit(s, row, cfg))
  \/ supertrend_exit(row, cfg)
  \/ time_based_stop(s, row, cfg)

trend_exit(s, highest, row, cfg) ==
  \/ Lt(row.macd, FSub(row.macd_signal, ToF(cfg.macd_threshold)))
  \/ Lt(row.Close, trailing_stop(highest, cfg))
  \/ Lt(row.Close, stop_loss(s, row, cfg))
  \/ Gt(row.Close, take_profit(s, row, cfg))
  \/ supertrend_exit(row, cfg)
  \/ time_based_stop(s, row, cfg)

ExitModeByMarket(s, highest, row, cfg) ==
  IF RangeMode(row, cfg) THEN sell_near_resistance(row, cfg)
  ELSE trend_exit(s, highest, row, cfg)

ExitMode(s, highest, row, cfg) ==
  IF s.is_range_trading THEN range_exit(s, row, cfg)
  ELSE trend_exit(s, highest, row, cfg)

(* Returns the signal and the engine state left behind.  The high-water    *)
(* mark is updated before the indicator columns are read, so a KeyError    *)
(* (line 358, caught at line 396) leaves it updated.  Line 388 sets        *)
(* exit_signal_generated on the Series handed in, a copy of the row, so    *)
(* the DataFrame keeps the flag False.                                     *)
exit_signal(s, row, d, is_backtest, cfg, clock) ==
  LET no == [ signal |-> FALSE, state |-> s ]
  IN IF FutureCandle(row, clock) THEN no
     ELSE IF ExitGuard(s, row) THEN no
     ELSE IF OutdatedCandle(row, d, is_backtest) THEN no
     ELSE LET highest == PyMax(s.highest_price, row.Close)
              held == [ s EXCEPT !.highest_price = highest ]
          IN IF ~d.indicators
             THEN [ signal |-> FALSE, state |-> held ]
             ELSE IF ExitMode(s, highest, row, cfg)
                  THEN [ signal |-> TRUE, state |-> FreshStrategy ]
                  ELSE [ signal |-> FALSE, state |-> held ]

-----------------------------------------------------------------------------
(* Backtester *)

BtParams ==
  { [ initial_capital |-> 100000, trade_fee |-> 100,
      investment_fraction |-> 1000,
      spread |-> DefaultSpread, slippage |-> DefaultSlippage ],
    [ initial_capital |-> 100000, trade_fee |-> 100,
      investment_fraction |-> 500,
      spread |-> 0, slippage |-> 0 ] }

EntryPrice(close, b) == RMul(close, RS + b.spread + b.slippage)

ExitPrice(close, b) == RMul(close, RS - b.spread - b.slippage)

InvestmentOfInitial(cap, b) == FMul(b.initial_capital, b.investment_fraction)

InvestmentAmount(cap, b) == FMul(cap, b.investment_fraction)

OpenPositionStaleId(id, row, cap, b) ==
  [ trade_id |-> id - 1, entry_price |-> EntryPrice(row.Close, b),
    entry_time |-> row.name,
    shares |-> FDiv(InvestmentAmount(cap, b), EntryPrice(row.Close, b)) ]

OpenPosition(id, row, cap, b) ==
  LET entry_price == EntryPrice(row.Close, b)
      investment_amount == InvestmentAmount(cap, b)
      shares == FDiv(investment_amount, entry_price)
  IN [ trade_id |-> id, entry_price |-> entry_price,
       entry_time |-> row.name, shares |-> shares ]

TradeFeeExitOnly(pos, exit_price, b) ==
  RMul(FMul(exit_price, pos.shares), b.trade_fee)

TradeFee(pos, exit_price, b) ==
  RMul(FMul(pos.entry_price + exit_price, pos.shares), b.trade_fee)

Profit(pos, exit_price, b) ==
  FMul(exit_price - pos.entry_price, pos.shares) - TradeFee(pos, exit_price, b)

ClosePosition(pos, exit_price, exit_time, b) ==
  [ exit_price |-> exit_price, exit_time |-> exit_time,
    profit |-> Profit(pos, exit_price, b) ] @@ pos

CapitalAfterGross(cap, trade) ==
  cap + FMul(trade.exit_price - trade.entry_price, trade.shares)

CapitalAfter(cap, trade) == cap + trade.profit

PositionKept(pos) == pos

PositionAfterClose(pos) == << >>

NeedsForcedClose(pos) == pos # << >>

(* the row the end-of-data close is priced at: data['Close'].iloc[-1] *)
FinalRowStale(d) == iloc(d, len(d) - 2)

FinalRow(d) == iloc(d, len(d) - 1)

(* run(), up to the first row of the loop.  The warm-up rows are consumed  *)
(* here: they are NaN rows, on which entry_signal is evaluated and returns *)
(* False.                                                                  *)
RunStart ==
  /\ driver = "backtest"
  /\ pc = "new"
  /\ IF empty(data)
     THEN /\ pc' = "error"
          /\ UNCHANGED <<data, strategy, i>>
     ELSE LET d == calculate_indicators(data, config)
          IN /\ data' = d
             /\ pc' = "loop"
             /\ i' = d.warm
             /\ strategy' =
                  IF d.warm >= 2
                  THEN entry_signal(strategy, iloc(d, 1), d, TRUE,
                                    config, now).state
                  ELSE strategy
  /\ position' = << >>
  /\ UNCHANGED <<config, now, capital, final_capital, trades, trade_id,
                 bt, driver, lastCall, runs, first, metrics, heap, instances, solo,
                 db, opened, history,
                 live, paper, call, limiter, fetch>>

(* one iteration of the loop over data.iterrows() *)
RunBar ==
  /\ driver = "backtest"
  /\ pc = "loop"
  /\ i < len(data)
  /\ LET row == iloc(data, i)
     IN IF position = << >>
        THEN LET r == entry_signal(strategy, row, data, TRUE, config, now)
             IN /\ strategy' = r.state
                /\ IF r.signal
                   THEN /\ trade_id' = trade_id + 1
                        /\ position' = << OpenPosition(trade_id + 1, row,
                                                       capital, bt) >>
                   ELSE UNCHANGED <<trade_id, position>>
                /\ UNCHANGED <<capital, final_capital, trades>>
        ELSE LET r == exit_signal(strategy, row, data, TRUE, config, now)
             IN IF r.signal
                THEN LET trade == ClosePosition(position[1],
                                     ExitPrice(row.Close, bt), row.name, bt)
                     IN /\ capital' = CapitalAfter(capital, trade)
                        /\ final_capital' = CapitalAfter(capital, trade)
                        /\ trades' = Append(trades, trade)
                        /\ position' = PositionAfterClose(position)
                        /\ strategy' = [ r.state EXCEPT !.position_open = FALSE ]
                        /\ UNCHANGED trade_id
                ELSE /\ strategy' = r.state
                     /\ UNCHANGED <<capital, final_capital, trades,
                                    position, trade_id>>
  /\ i' = i + 1
  /\ UNCHANGED <<data, config, now, pc, bt, driver, lastCall, runs, first, metrics, heap, instances, solo,
                 db, opened, history,
                 live, paper, call, limiter, fetch>>

(* the end of run(): close any open position at the last close *)
RunFinish ==
  /\ driver = "backtest"
  /\ pc = "loop"
  /\ i = len(data)
  /\ IF NeedsForcedClose(position)
     THEN LET last == FinalRow(data)
              trade == ClosePosition(position[1], ExitPrice(last.Close, bt),
                                     last.name, bt)
          IN /\ capital' = CapitalAfter(capital, trade)
             /\ final_capital' = CapitalAfter(capital, trade)
             /\ trades' = Append(trades, trade)
     ELSE UNCHANGED <<capital, final_capital, trades>>
  /\ pc' = "done"
  /\ UNCHANGED <<data, config, now, strategy, i, position, trade_id,
                 bt, driver, lastCall, runs, first, metrics, heap, instances, solo,
                 db, opened, history,
                 live, paper, call, limiter, fetch>>

-----------------------------------------------------------------------------
(* Backtester.calculate_metrics *)

AnnualizationFactor == 252

Inf == 999999999

(* round(x, 2) of a value held with three decimals *)
Round2(x) ==
  LET q == x \div 10
      r == x % 10
  IN IF r < 5 THEN q * 10
     ELSE IF r > 5 THEN (q + 1) * 10
     ELSE IF q % 2 = 0 THEN q * 10 ELSE (q + 1) * 10

RECURSIVE SqrtBetween(_, _, _)
SqrtBetween(n, lo, hi) ==
  IF hi - lo <= 1 THEN lo
  ELSE LET mid == (lo + hi) \div 2
       IN IF mid * mid <= n THEN SqrtBetween(n, mid, hi)
          ELSE SqrtBetween(n, lo, mid)

sqrt(x) == SqrtBetween(x * S, 0, 46341)

RECURSIVE Sum(_)
Sum(seq) == IF seq = << >> THEN 0 ELSE seq[1] + Sum(Tail(seq))

mean(seq) == Sum(seq) \div Len(seq)

std(seq) ==
  sqrt(mean([ k \in 1..Len(seq) |->
                FMul(seq[k] - mean(seq), seq[k] - mean(seq)) ]))

Profits(ledger) == [ k \in 1..Len(ledger) |-> ledger[k].profit ]

Wins(ledger) == SelectSeq(Profits(ledger), LAMBDA p : p > 0)

Losses(ledger) == SelectSeq(Profits(ledger), LAMBDA p : p < 0)

win_rate(ledger) ==
  IF Len(ledger) > 0 THEN (Len(Wins(ledger)) * S) \div Len(ledger) ELSE 0

total_fees(ledger, b) ==
  Sum([ k \in 1..Len(ledger) |->
          RMul(FMul(ledger[k].entry_price, ledger[k].shares), b.trade_fee)
          + RMul(FMul(ledger[k].exit_price, ledger[k].shares), b.trade_fee) ])

equity_curve_from_initial(ledger, initial) ==
  << initial >> \o [ k \in 1..Len(ledger) |-> initial + ledger[k].profit ]

RECURSIVE equity_curve(_, _)
equity_curve(ledger, initial) ==
  IF ledger = << >> THEN << initial >>
  ELSE LET curve == equity_curve(SubSeq(ledger, 1, Len(ledger) - 1), initial)
       IN Append(curve, curve[Len(curve)] + ledger[Len(ledger)].profit)

(* np.maximum.accumulate *)
RunningMax(curve) ==
  [ k \in 1..Len(curve) |-> MaxOf({ curve[j] : j \in 1..k }) ]

max_drawdown(curve) ==
  LET below == { curve[k] - RunningMax(curve)[k] : k \in 1..Len(curve) }
      lowest == CHOOSE x \in below : \A y \in below : x <= y
  IN IF lowest < 0 THEN lowest ELSE 0

buy_and_hold_profit(ledger, b) ==
  IF ledger # << >>
  THEN LET first_trade_open_price == ledger[1].entry_price
           last_trade_close_price == ledger[Len(ledger)].exit_price
           shares == FDiv(b.initial_capital, first_trade_open_price)
       IN FMul(last_trade_close_price - first_trade_open_price, shares)
  ELSE 0

returns(curve) ==
  IF Len(curve) > 1
  THEN [ k \in 1..(Len(curve) - 1) |-> FDiv(curve[k + 1] - curve[k], curve[k]) ]
  ELSE << 0 >>

sharpe_ratio(rets) ==
  IF std(rets) # 0
  THEN FMul(FDiv(mean(rets), std(rets)), sqrt(AnnualizationFactor * S))
  ELSE 0

sortino_ratio(rets) ==
  LET downside_returns == [ k \in 1..Len(rets) |-> PyMin(rets[k], 0) ]
  IN IF std(downside_returns) # 0
     THEN FMul(FDiv(mean(rets), std(downside_returns)),
               sqrt(AnnualizationFactor * S))
     ELSE 0

avg_trade_duration_hours(ledger) ==
  IF Len(ledger) > 0
  THEN Sum([ k \in 1..Len(ledger) |->
               (ledger[k].exit_time - ledger[k].entry_time) * 24 * S ])
       \div Len(ledger)
  ELSE 0

gross_profit(ledger) == Sum(Wins(ledger))

gross_loss(ledger) == 0 - Sum(Losses(ledger))

profit_factor_zero(ledger) ==
  IF gross_loss(ledger) # 0
  THEN FDiv(gross_profit(ledger), gross_loss(ledger))
  ELSE 0

profit_factor(ledger) ==
  IF gross_loss(ledger) # 0
  THEN FDiv(gross_profit(ledger), gross_loss(ledger))
  ELSE Inf

expectancy(ledger) ==
  LET avg_win == IF win_rate(ledger) > 0
                 THEN gross_profit(ledger) \div Len(Wins(ledger)) ELSE 0
      num_losses == Len(Losses(ledger))
      avg_loss == IF num_losses > 0
                  THEN gross_loss(ledger) \div num_losses ELSE 0
  IN FMul(win_rate(ledger), avg_win) - FMul(S - win_rate(ledger), avg_loss)

calculate_metrics(ledger, final, b) ==
  LET total_profit == final - b.initial_capital
      curve == equity_curve(ledger, b.initial_capital)
  IN [ capital |->
         [ initial |-> b.initial_capital,
           final |-> final,
           total_profit |-> total_profit,
           pl_percent |-> Round2(FDiv(total_profit, b.initial_capital) * 100) ],
       trades |->
         [ number_of_trades |-> Len(ledger),
           win_rate |-> Round2(win_rate(ledger) * 100),
           avg_trade_duration_hours |->
             Round2(avg_trade_duration_hours(ledger)),
           profit_factor |-> IF profit_factor(ledger) # Inf
                             THEN Round2(profit_factor(ledger)) ELSE Inf,
           expectancy |-> Round2(expectancy(ledger)) ],
       fees |-> [ total_fees |-> Round2(total_fees(ledger, b)) ],
       performance |->
         [ max_drawdown |-> Round2(max_drawdown(curve)),
           sharpe_ratio |-> Round2(sharpe_ratio(returns(curve))),
           sortino_ratio |-> Round2(sortino_ratio(returns(curve))) ],
       buy_and_hold |->
         [ final_capital |-> b.initial_capital + buy_and_hold_profit(ledger, b),
           profit |-> buy_and_hold_profit(ledger, b),
           pl_percent |->
             Round2(FDiv(buy_and_hold_profit(ledger, b), b.initial_capital)
                    * 100) ] ]

(* the caller derives the metrics once, after run() has returned *)
CalculateMetrics ==
  /\ driver = "backtest"
  /\ pc = "done"
  /\ metrics = << >>
  /\ metrics' = << calculate_metrics(trades, final_capital, bt) >>
  /\ UNCHANGED <<data, config, now, strategy, pc, i, position, capital,
                 final_capital, trades, trade_id, bt, driver, lastCall,
                 runs, first, heap, instances, solo,
                 db, opened, history,
                 live, paper, call, limiter, fetch>>

-----------------------------------------------------------------------------
(* A collaborator that polls the engine unconditionally: it computes the   *)
(* indicators and calls entry_signal / exit_signal on any row, in any      *)
(* order, as the live loops and the strategy tests do.                     *)

NoCall ==
  [ op |-> "none", name |-> 0, is_backtest |-> FALSE, signal |-> FALSE,
    before |-> FreshStrategy ]

PollIndicators ==
  /\ driver = "poller"
  /\ ~data.indicators
  /\ data' = calculate_indicators(data, config)
  /\ data' # data
  /\ UNCHANGED <<config, now, strategy, pc, i, position, capital,
                 final_capital, trades, trade_id, bt, driver, lastCall, runs, first, metrics, heap, instances, solo,
                 db, opened, history,
                 live, paper, call, limiter, fetch>>

CallEntry ==
  /\ driver = "poller"
  /\ \E k \in 1..Len(data.rows), is_backtest \in BOOLEAN :
       LET row == loc(data, k)
           r == entry_signal(strategy, row, data, is_backtest, config, now)
       IN /\ strategy' = r.state
          /\ lastCall' = [ op |-> "entry", name |-> k,
                           is_backtest |-> is_backtest,
                           signal |-> r.signal, before |-> strategy ]
  /\ UNCHANGED <<data, config, now, pc, i, position, capital,
                 final_capital, trades, trade_id, bt, driver, runs, first, metrics, heap, instances, solo,
                 db, opened, history,
                 live, paper, call, limiter, fetch>>

CallExit ==
  /\ driver = "poller"
  /\ \E k \in 1..Len(data.rows), is_backtest \in BOOLEAN :
       LET row == loc(data, k)
           r == exit_signal(strategy, row, data, is_backtest, config, now)
       IN /\ strategy' = r.state
          /\ lastCall' = [ op |-> "exit", name |-> k,
                           is_backtest |-> is_backtest,
                           signal |-> r.signal, before |-> strategy ]
  /\ UNCHANGED <<data, config, now, pc, i, position, capital,
                 final_capital, trades, trade_id, bt, driver, runs, first, metrics, heap, instances, solo,
                 db, opened, history,
                 live, paper, call, limiter, fetch>>

-----------------------------------------------------------------------------

-----------------------------------------------------------------------------
(* Strategy instances.  The module-level dict strategy_params and the      *)
(* config dict of each instance are cells of a heap, so that two names     *)
(* bound to one dict share its contents.                                   *)

Inst == {"A", "B"}

DefaultCell == "strategy_params"

Cells == {DefaultCell} \cup Inst

(* config.json's "strategy" section, as loaded at import *)
StrategyParams == BaseConfig

ModuleHeap == [ c \in Cells |-> IF c = DefaultCell THEN StrategyParams ELSE << >> ]

(* the config argument of Strategy(config): None, a complete mapping, or   *)
(* mappings that hold some of the keys only.  The values are of the        *)
(* declared types, on which the int() / float() coercion changes nothing.  *)
ProvidedConfigs ==
  { [ given |-> FALSE, map |-> << >> ],
    [ given |-> TRUE, map |-> BaseConfig ],
    [ given |-> TRUE, map |-> [ use_supertrend |-> FALSE ] ],
    [ given |-> TRUE, map |-> [ use_adx_positive |-> FALSE, adx_threshold |-> 35 ] ] }

NoInstance ==
  [ attempted |-> FALSE, built |-> FALSE, error |-> "none",
    provided |-> [ given |-> FALSE, map |-> << >> ],
    config |-> DefaultCell, state |-> FreshStrategy, signal |-> FALSE ]

NoSolo == [ config |-> << >>, state |-> FreshStrategy, signal |-> FALSE ]

(* dict.update *)
update(target, provided) ==
  IF provided.given THEN provided.map @@ target ELSE target

missing_keys(defaults, cfg) ==
  { key \in DOMAIN defaults : key \notin DOMAIN cfg }

config_cell_shared(x) == DefaultCell

(* self.default_config.copy(): a dict of the instance's own *)
config_cell(x) == x

(* Strategy.__init__ *)
Construct(x) ==
  /\ driver = "instances"
  /\ ~instances[x].attempted
  /\ \E provided \in ProvidedConfigs :
       LET cell == config_cell(x)
           copied == [ heap EXCEPT ![cell] = heap[DefaultCell] ]
           updated == [ copied EXCEPT ![cell] = update(copied[cell], provided) ]
           missing == missing_keys(updated[DefaultCell], updated[cell])
       IN /\ heap' = updated
          /\ instances' =
               [ instances EXCEPT ![x] =
                   [ attempted |-> TRUE,
                     built |-> missing = {},
                     error |-> IF missing # {} THEN "KeyError" ELSE "none",
                     provided |-> provided,
                     config |-> cell,
                     state |-> FreshStrategy,
                     signal |-> FALSE ] ]
          /\ solo' = [ solo EXCEPT ![x] =
                         [ config |-> update(StrategyParams, provided),
                           state |-> FreshStrategy, signal |-> FALSE ] ]
  /\ UNCHANGED <<data, config, now, strategy, pc, i, position, capital,
                 final_capital, trades, trade_id, bt, driver, lastCall,
                 runs, first, metrics, db, opened, history,
                 live, paper, call, limiter, fetch>>

(* entry_signal / exit_signal called on one instance; solo follows the     *)
(* same calls on an engine that is alone in the process.                   *)
InstEntry(x) ==
  /\ driver = "instances"
  /\ instances[x].built
  /\ \E k \in 1..Len(data.rows), is_backtest \in BOOLEAN :
       LET row == loc(data, k)
           r == entry_signal(instances[x].state, row, data, is_backtest,
                             heap[instances[x].config], now)
           alone == entry_signal(solo[x].state, row, data, is_backtest,
                                 solo[x].config, now)
       IN /\ instances' = [ instances EXCEPT ![x].state = r.state,
                                             ![x].signal = r.signal ]
          /\ solo' = [ solo EXCEPT ![x].state = alone.state,
                                   ![x].signal = alone.signal ]
  /\ UNCHANGED <<data, config, now, strategy, pc, i, position, capital,
                 final_capital, trades, trade_id, bt, driver, lastCall,
                 runs, first, metrics, heap,
                 db, opened, history,
                 live, paper, call, limiter, fetch>>

InstExit(x) ==
  /\ driver = "instances"
  /\ instances[x].built
  /\ \E k \in 1..Len(data.rows), is_backtest \in BOOLEAN :
       LET row == loc(data, k)
           r == exit_signal(instances[x].state, row, data, is_backtest,
                            heap[instances[x].config], now)
           alone == exit_signal(solo[x].state, row, data, is_backtest,
                                solo[x].config, now)
       IN /\ instances' = [ instances EXCEPT ![x].state = r.state,
                                             ![x].signal = r.signal ]
          /\ solo' = [ solo EXCEPT ![x].state = alone.state,
                                   ![x].signal = alone.signal ]
  /\ UNCHANGED <<data, config, now, strategy, pc, i, position, capital,
                 final_capital, trades, trade_id, bt, driver, lastCall,
                 runs, first, metrics, heap,
                 db, opened, history,
                 live, paper, call, limiter, fetch>>

-----------------------------------------------------------------------------
(* The trades table of the paper-trading loop (live_paper.py).  A row's id *)
(* is its position in the table (AUTOINCREMENT); the timestamp column      *)
(* holds the ISO text of the time of the insert.                           *)

MaxSaves == 3

TradePrices == { 10000, 12000 }

isoformat(t) == [ iso |-> t ]

to_datetime(text) == text.iso

TradeRow(id, trade_type, price, source) ==
  [ id |-> id, timestamp |-> isoformat(id), type |-> trade_type,
    price |-> price, volume |-> S, source |-> source ]

(* save_trade executes its INSERT statement twice before the commit *)
save_trade(table, trade_type, price, source) ==
  LET once == Append(table, TradeRow(Len(table) + 1, trade_type, price, source))
  IN Append(once, TradeRow(Len(once) + 1, trade_type, price, source))

NotAsked == [ asked |-> FALSE, position |-> << >> ]

(* ... WHERE type='buy' ORDER BY id DESC LIMIT 1 *)
LastBuy(table) ==
  LET buys == { k \in 1..Len(table) : table[k].type = "buy" }
  IN IF buys = {} THEN << >> ELSE << table[MaxOf(buys)] >>

SellAfterAnySell(table, buy_id) ==
  \E k \in 1..Len(table) : table[k].type = "sell"

(* ... WHERE type='sell' AND id>? ORDER BY id ASC LIMIT 1 *)
SellAfter(table, buy_id) ==
  \E k \in 1..Len(table) : table[k].type = "sell" /\ table[k].id > buy_id

(* None is the empty tuple, a position a tuple of one record *)
get_open_position(table) ==
  LET last_buy == LastBuy(table)
  IN IF last_buy = << >> THEN << >>
     ELSE IF ~SellAfter(table, last_buy[1].id)
          THEN << [ entry_price |-> last_buy[1].price,
                    volume |-> last_buy[1].volume,
                    entry_time |-> to_datetime(last_buy[1].timestamp),
                    source |-> last_buy[1].source ] >>
          ELSE << >>

SaveTrade ==
  /\ driver = "paper"
  /\ Len(db) < 2 * MaxSaves
  /\ \E trade_type \in {"buy", "sell"}, price \in TradePrices,
        source \in {"manual", "auto"} :
       db' = save_trade(db, trade_type, price, source)
  /\ opened' = NotAsked
  /\ UNCHANGED <<data, config, now, strategy, pc, i, position, capital,
                 final_capital, trades, trade_id, bt, driver, lastCall,
                 runs, first, metrics, heap, instances, solo, history,
                 live, paper, call, limiter, fetch>>

GetOpenPosition ==
  /\ driver = "paper"
  /\ ~opened.asked
  /\ opened' = [ asked |-> TRUE, position |-> get_open_position(db) ]
  /\ UNCHANGED <<data, config, now, strategy, pc, i, position, capital,
                 final_capital, trades, trade_id, bt, driver, lastCall,
                 runs, first, metrics, heap, instances, solo, db, history,
                 live, paper, call, limiter, fetch>>

(* The live loop (live_paper.py): at the close of an interval the poller   *)
(* holds the bars up to the most recent one, takes the last of them as     *)
(* last_candle and asks the engine for an entry when it holds no position, *)
(* for an exit when it holds one, with is_backtest=False.                  *)
PollView(d, k) == [ d EXCEPT !.rows = SubSeq(d.rows, 1, k) ]

auto_action(s, held, d, cfg, clock) ==
  LET last_candle == iloc(d, len(d) - 1)
  IN IF ~held THEN entry_signal(s, last_candle, d, FALSE, cfg, clock)
     ELSE exit_signal(s, last_candle, d, FALSE, cfg, clock)

Clocks(rows) == { Len(rows) - 1, Len(rows) + 1 }

(* A second run over the same bars and the same configuration: the caller *)
(* constructs a new Backtester (Backtester.__init__) around the same       *)
(* DataFrame, with a new Strategy or with the one it already holds, at a   *)
(* later wall-clock time.                                                  *)
NoRun == [ trades |-> << >>, final_capital |-> 0 ]

Rerun ==
  /\ driver = "backtest"
  /\ pc = "done"
  /\ runs = 1
  /\ runs' = 2
  /\ first' = [ trades |-> trades, final_capital |-> final_capital ]
  /\ pc' = "new"
  /\ i' = 0
  /\ position' = << >>
  /\ capital' = bt.initial_capital
  /\ final_capital' = bt.initial_capital
  /\ trades' = << >>
  /\ trade_id' = 0
  /\ strategy' \in { FreshStrategy, strategy }
  /\ now' \in { c \in Clocks(data.rows) : c >= now }
  /\ UNCHANGED <<data, config, bt, driver, lastCall, metrics, heap, instances, solo,
                 db, opened, history,
                 live, paper, call, limiter, fetch>>

Init ==
  /\ driver \in {"backtest", "poller"}
  /\ config \in Configs
  /\ \E warm \in {0, min_periods(config)} :
     \E rows \in SeqsUpTo(BarSet, IF driver = "backtest" THEN MaxBars
                                  ELSE MaxPollBars) :
        /\ data = DataFrame(rows, warm)
        /\ now \in Clocks(rows)
  /\ bt \in IF driver = "backtest" THEN BtParams
            ELSE { CHOOSE b \in BtParams : b.spread = 0 }
  /\ strategy = FreshStrategy
  /\ pc = IF driver = "backtest" THEN "new" ELSE "poll"
  /\ i = 0
  /\ position = << >>
  /\ capital = bt.initial_capital
  /\ final_capital = bt.initial_capital
  /\ trades = << >>
  /\ trade_id = 0
  /\ lastCall = NoCall
  /\ runs = 1
  /\ first = NoRun
  /\ metrics = << >>
  /\ heap = ModuleHeap
  /\ instances = [ x \in Inst |-> NoInstance ]
  /\ solo = [ x \in Inst |-> NoSolo ]
  /\ db = << >>
  /\ opened = NotAsked
  /\ history = << >>
  /\ live = << >>
  /\ paper = << >>
  /\ call = << >>
  /\ limiter = << >>
  /\ fetch = << >>

Next ==
  \/ RunStart
  \/ RunBar
  \/ RunFinish
  \/ PollIndicators
  \/ CallEntry
  \/ CallExit

Spec == Init /\ [][Next]_vars

NextRerun ==
  \/ RunStart
  \/ RunBar
  \/ RunFinish
  \/ Rerun

InitRerun == Init /\ driver = "backtest"

SpecRerun == InitRerun /\ [][NextRerun]_vars

NextMetrics ==
  \/ RunStart
  \/ RunBar
  \/ RunFinish
  \/ CalculateMetrics

SpecMetrics == InitRerun /\ [][NextMetrics]_vars

InitInstances ==
  /\ driver = "instances"
  /\ config = StrategyParams
  /\ \E rows \in SeqsUpTo(BarSet, MaxPollBars) :
        /\ data = calculate_indicators(DataFrame(rows, min_periods(config)),
                                       config)
        /\ now = Len(rows) + 1
  /\ bt = CHOOSE b \in BtParams : b.spread = 0
  /\ strategy = FreshStrategy
  /\ pc = "poll"
  /\ i = 0
  /\ position = << >>
  /\ capital = bt.initial_capital
  /\ final_capital = bt.initial_capital
  /\ trades = << >>
  /\ trade_id = 0
  /\ lastCall = NoCall
  /\ runs = 1
  /\ first = NoRun
  /\ metrics = << >>
  /\ heap = ModuleHeap
  /\ instances = [ x \in Inst |-> NoInstance ]
  /\ solo = [ x \in Inst |-> NoSolo ]
  /\ db = << >>
  /\ opened = NotAsked
  /\ history = << >>
  /\ live = << >>
  /\ paper = << >>
  /\ call = << >>
  /\ limiter = << >>
  /\ fetch = << >>

NextInstances ==
  \E x \in Inst :
     \/ Construct(x)
     \/ InstEntry(x)
     \/ InstExit(x)

SpecInstances == InitInstances /\ [][NextInstances]_vars

InitPaper ==
  /\ driver = "paper"
  /\ config = StrategyParams
  /\ data = DataFrame(<< >>, 0)
  /\ now = 0
  /\ bt = CHOOSE b \in BtParams : b.spread = 0
  /\ strategy = FreshStrategy
  /\ pc = "poll"
  /\ i = 0
  /\ position = << >>
  /\ capital = bt.initial_capital
  /\ final_capital = bt.initial_capital
  /\ trades = << >>
  /\ trade_id = 0
  /\ lastCall = NoCall
  /\ runs = 1
  /\ first = NoRun
  /\ metrics = << >>
  /\ heap = ModuleHeap
  /\ instances = [ x \in Inst |-> NoInstance ]
  /\ solo = [ x \in Inst |-> NoSolo ]
  /\ db = << >>
  /\ opened = NotAsked
  /\ history = << >>
  /\ live = << >>
  /\ paper = << >>
  /\ call = << >>
  /\ limiter = << >>
  /\ fetch = << >>

NextPaper ==
  \/ SaveTrade
  \/ GetOpenPosition

SpecPaper == InitPaper /\ [][NextPaper]_vars

(* the poller over data that already carries the indicator columns *)
InitRules ==
  /\ driver = "poller"
  /\ config \in RuleConfigs
  /\ \E rows \in SeqsUpTo(RuleBars, MaxRuleBars) :
        /\ data = calculate_indicators(DataFrame(rows, min_periods(config)),
                                       config)
        /\ now \in Clocks(rows)
  /\ bt = CHOOSE b \in BtParams : b.spread = 0
  /\ strategy = FreshStrategy
  /\ pc = "poll"
  /\ i = 0
  /\ position = << >>
  /\ capital = bt.initial_capital
  /\ final_capital = bt.initial_capital
  /\ trades = << >>
  /\ trade_id = 0
  /\ lastCall = NoCall
  /\ runs = 1
  /\ first = NoRun
  /\ metrics = << >>
  /\ heap = ModuleHeap
  /\ instances = [ x \in Inst |-> NoInstance ]
  /\ solo = [ x \in Inst |-> NoSolo ]
  /\ db = << >>
  /\ opened = NotAsked
  /\ history = << >>
  /\ live = << >>
  /\ paper = << >>
  /\ call = << >>
  /\ limiter = << >>
  /\ fetch = << >>

NextRules ==
  \/ CallEntry
  \/ CallExit

SpecRules == InitRules /\ [][NextRules]_vars

-----------------------------------------------------------------------------
(* One engine called on the bars of one DataFrame in any order, with a     *)
(* record of the bars each method has evaluated: a call evaluates its bar  *)
(* when it passes the guards and reaches the rules.                        *)

MaxHistoryBars == 3

HistoryBars == { TrendUp, RangeEdge, Crash }

NoHistory == [ entry |-> {}, exit |-> {}, closes |-> {} ]

entry_evaluated(s, row, d, is_backtest, clock) ==
  /\ ~FutureCandle(row, clock)
  /\ ~EntryGuard(s, row)
  /\ ~OutdatedCandle(row, d, is_backtest)

exit_evaluated(s, row, d, is_backtest, clock) ==
  /\ ~FutureCandle(row, clock)
  /\ ~ExitGuard(s, row)
  /\ ~OutdatedCandle(row, d, is_backtest)

TrackEntry ==
  /\ driver = "tracker"
  /\ \E k \in 1..Len(data.rows), is_backtest \in BOOLEAN :
       LET row == loc(data, k)
           r == entry_signal(strategy, row, data, is_backtest, config, now)
           evaluated == entry_evaluated(strategy, row, data, is_backtest, now)
       IN /\ strategy' = r.state
          /\ lastCall' = [ op |-> "entry", name |-> k,
                           is_backtest |-> is_backtest,
                           signal |-> r.signal, before |-> strategy ]
          /\ history' =
               [ history EXCEPT
                   !.entry = IF evaluated THEN @ \cup {k} ELSE @,
                   !.closes = IF r.signal THEN {row.Close} ELSE @ ]
  /\ UNCHANGED <<data, config, now, pc, i, position, capital,
                 final_capital, trades, trade_id, bt, driver, runs, first,
                 metrics, heap, instances, solo, db, opened,
                 live, paper, call, limiter, fetch>>

TrackExit ==
  /\ driver = "tracker"
  /\ \E k \in 1..Len(data.rows), is_backtest \in BOOLEAN :
       LET row == loc(data, k)
           r == exit_signal(strategy, row, data, is_backtest, config, now)
           evaluated == exit_evaluated(strategy, row, data, is_backtest, now)
       IN /\ strategy' = r.state
          /\ lastCall' = [ op |-> "exit", name |-> k,
                           is_backtest |-> is_backtest,
                           signal |-> r.signal, before |-> strategy ]
          /\ history' =
               [ history EXCEPT
                   !.exit = IF evaluated THEN @ \cup {k} ELSE @,
                   !.closes = IF r.signal THEN {}
                              ELSE IF evaluated THEN @ \cup {row.Close}
                              ELSE @ ]
  /\ UNCHANGED <<data, config, now, pc, i, position, capital,
                 final_capital, trades, trade_id, bt, driver, runs, first,
                 metrics, heap, instances, solo, db, opened,
                 live, paper, call, limiter, fetch>>

InitHistory ==
  /\ driver = "tracker"
  /\ config = BaseConfig
  /\ \E rows \in SeqsUpTo(HistoryBars, MaxHistoryBars) :
        /\ data = calculate_indicators(DataFrame(rows, min_periods(config)),
                                       config)
        /\ now \in Clocks(rows)
  /\ bt = CHOOSE b \in BtParams : b.spread = 0
  /\ strategy = FreshStrategy
  /\ pc = "poll"
  /\ i = 0
  /\ position = << >>
  /\ capital = bt.initial_capital
  /\ final_capital = bt.initial_capital
  /\ trades = << >>
  /\ trade_id = 0
  /\ lastCall = NoCall
  /\ runs = 1
  /\ first = NoRun
  /\ metrics = << >>
  /\ heap = ModuleHeap
  /\ instances = [ x \in Inst |-> NoInstance ]
  /\ solo = [ x \in Inst |-> NoSolo ]
  /\ db = << >>
  /\ opened = NotAsked
  /\ history = NoHistory
  /\ live = << >>
  /\ paper = << >>
  /\ call = << >>
  /\ limiter = << >>
  /\ fetch = << >>

NextHistory == TrackEntry \/ TrackExit

SpecHistory == InitHistory /\ [][NextHistory]_vars

-----------------------------------------------------------------------------
(* The live trading loop (trading/live_trading.py and the older            *)
(* live_trading.py).  The candle file only holds closed candles and grows  *)
(* by appends; every cycle reads it again.                                 *)

MaxLiveBars == 3

LiveBars == { TrendUp, MacdDrop }

Balances == { None, 5000, 100000 }

LivePrices == { None, 10000 }

INVESTMENT_FRACTION == S

MinInvestment == 10

(* MIN_TRADE_SIZE = 0.0001, in units of 1e-4 *)
MIN_TRADE_SIZE == 1

BelowMinTradeSize(volume) == volume * (10000 \div S) < MIN_TRADE_SIZE

(* pd.Timestamp.floor(interval), the interval spanning k candles of the file *)
floor(t, k) == t - (t % k)

(* data[data.index <= now].iloc[-1] on the sorted index, None when no row  *)
(* qualifies                                                               *)
get_last_valid_row(d, clock) ==
  IF empty(d) \/ clock < 1 - d.warm THEN [ found |-> FALSE, name |-> 0 ]
  ELSE [ found |-> TRUE,
         name |-> IF clock < LastIndex(d) THEN clock ELSE LastIndex(d) ]

NoCandle == [ set |-> FALSE, time |-> 0 ]

NoCycle ==
  [ evaluated |-> FALSE, candle |-> NoCandle, fresh |-> FALSE,
    calls |-> << >>, orders |-> << >>, fired |-> FALSE, minimums |-> FALSE ]

LastEvaluatedKept(prev, candle) == prev

LastEvaluated(prev, candle) == candle

(* the engine calls of one evaluation: trading/live_trading.py calls the   *)
(* method once for the evaluation record (lines 296-297) and once more for *)
(* the trading logic (lines 307, 356); live_trading.py calls it once, on   *)
(* the slice taken before the indicator columns were added.                *)
LiveCall(s, held, row, d, cfg, clock) ==
  IF ~held THEN [ op |-> "entry" ] @@ entry_signal(s, row, d, FALSE, cfg, clock)
  ELSE [ op |-> "exit" ] @@ exit_signal(s, row, d, FALSE, cfg, clock)

LiveCalls(variant, s, held, name, file, cfg, clock) ==
  IF variant = "trading"
  THEN LET df == calculate_indicators(file, cfg)
           decision == LiveCall(s, held, loc(df, name), df, cfg, clock)
           logic == LiveCall(decision.state, held, loc(df, name), df, cfg,
                             clock)
       IN << decision, logic >>
  ELSE LET data_valid == PollView(file, name)
       IN << LiveCall(s, held, loc(data_valid, name), data_valid, cfg, clock) >>

Minimums(balance, price) ==
  /\ balance # None
  /\ price # None
  /\ FMul(balance, INVESTMENT_FRACTION) >= MinInvestment * S
  /\ ~BelowMinTradeSize(FDiv(FMul(balance, INVESTMENT_FRACTION), price))

(* the orders attempted and the position left by the trading logic, given  *)
(* the signal of the last engine call                                      *)
LiveTrade(pos, signal, balance, price, txid) ==
  LET none == [ orders |-> << >>, position |-> pos ]
  IN IF ~signal THEN none
     ELSE IF pos = << >>
     THEN IF balance = None THEN none
          ELSE LET invest_amount == FMul(balance, INVESTMENT_FRACTION)
               IN IF invest_amount < MinInvestment * S THEN none
                  ELSE IF price = None THEN none
                  ELSE LET volume == FDiv(invest_amount, price)
                       IN IF BelowMinTradeSize(volume) THEN none
                          ELSE [ orders |-> << "buy" >>,
                                 position |->
                                   IF txid
                                   THEN << [ entry_price |-> price,
                                             volume |-> volume ] >>
                                   ELSE pos ]
     ELSE [ orders |-> << "sell" >>,
            position |-> IF txid /\ price # None THEN << >> ELSE pos ]

(* the updater appends a closed candle to the file both loops read *)
LiveAppend ==
  /\ driver \in {"live", "paperloop"}
  /\ Len(data.rows) < MaxLiveBars
  /\ \E bar \in LiveBars :
       data' = [ data EXCEPT !.rows = Append(@, bar) ]
  /\ now' = Len(data.rows) + 1
  /\ UNCHANGED <<driver, config, bt, strategy, pc, i, position, capital,
                 final_capital, trades, trade_id, lastCall, runs, first,
                 metrics, heap, instances, solo, db, opened, history, live,
                 paper, call, limiter, fetch>>

(* one pass of the while loop *)
LiveCycle ==
  /\ driver = "live"
  /\ \E balance \in Balances, realtime_price \in LivePrices, txid \in BOOLEAN :
       LET last_row == get_last_valid_row(data, now)
           last_candle_time ==
             IF last_row.found
             THEN [ set |-> TRUE, time |-> floor(last_row.name, live.interval) ]
             ELSE NoCandle
           evaluate == last_candle_time.set
                       /\ last_candle_time # live.last_evaluated_candle
           calls == LiveCalls(live.variant, strategy, position # << >>,
                              last_row.name, data, config, now)
           trade == LiveTrade(position, calls[Len(calls)].signal, balance,
                              realtime_price, txid)
       IN IF evaluate
          THEN /\ strategy' = calls[Len(calls)].state
               /\ position' = trade.position
               /\ live' =
                    [ live EXCEPT
                        !.last_evaluated_candle =
                           LastEvaluated(@, last_candle_time),
                        !.observed = @ \cup {last_candle_time.time},
                        !.cycle =
                           [ evaluated |-> TRUE,
                             candle |-> last_candle_time,
                             fresh |-> last_candle_time.time
                                          \notin live.observed,
                             calls |-> [ k \in 1..Len(calls) |->
                                          [ op |-> calls[k].op,
                                            signal |-> calls[k].signal ] ],
                             orders |-> trade.orders,
                             fired |-> \E k \in 1..Len(calls) :
                                          calls[k].op = "entry"
                                          /\ calls[k].signal,
                             minimums |-> Minimums(balance, realtime_price) ] ]
          ELSE /\ live' =
                    [ live EXCEPT
                        !.observed =
                           IF last_candle_time.set
                           THEN @ \cup {last_candle_time.time} ELSE @,
                        !.cycle = [ NoCycle EXCEPT
                                      !.candle = last_candle_time ] ]
               /\ UNCHANGED <<strategy, position>>
  /\ UNCHANGED <<driver, config, data, now, bt, pc, i, capital,
                 final_capital, trades, trade_id, lastCall, runs, first,
                 metrics, heap, instances, solo, db, opened, history,
                 paper, call, limiter, fetch>>

InitLive ==
  /\ driver = "live"
  /\ config = BaseConfig
  /\ \E bar \in LiveBars : data = DataFrame(<< bar >>, min_periods(config))
  /\ now = 1
  /\ bt = CHOOSE b \in BtParams : b.spread = 0
  /\ strategy = FreshStrategy
  /\ pc = "poll"
  /\ i = 0
  /\ position = << >>
  /\ capital = bt.initial_capital
  /\ final_capital = bt.initial_capital
  /\ trades = << >>
  /\ trade_id = 0
  /\ lastCall = NoCall
  /\ runs = 1
  /\ first = NoRun
  /\ metrics = << >>
  /\ heap = ModuleHeap
  /\ instances = [ x \in Inst |-> NoInstance ]
  /\ solo = [ x \in Inst |-> NoSolo ]
  /\ db = << >>
  /\ opened = NotAsked
  /\ history = << >>
  /\ \E k \in 1..2, variant \in {"trading", "legacy"} :
        live = [ interval |-> k, variant |-> variant,
                 last_evaluated_candle |-> NoCandle, observed |-> {},
                 cycle |-> NoCycle ]
  /\ paper = << >>
  /\ call = << >>
  /\ limiter = << >>
  /\ fetch = << >>

NextLive ==
  \/ LiveAppend
  \/ LiveCycle

SpecLive == InitLive /\ [][NextLive]_vars

-----------------------------------------------------------------------------
(* The paper-trading loop (live_paper.py main) *)

PaperPrices == { None, 10000, 12000 }

NoRound ==
  [ known |-> FALSE, closed |-> FALSE, before |-> 0, entry |-> 0,
    exit |-> 0, volume |-> 0, after |-> 0 ]

PaperBuy(balance, price, source, clock, b) ==
  LET invest_amount == FMul(balance, b.investment_fraction)
      volume == FDiv(invest_amount, price)
  IN [ balance |-> balance - invest_amount,
       position |-> << [ entry_price |-> price, volume |-> volume,
                         entry_time |-> clock, source |-> source ] >>,
       events |-> << [ type |-> "buy", price |-> price, source |-> source,
                       entry |-> price, volume |-> volume,
                       before |-> balance,
                       after |-> balance - invest_amount ] >> ]

ProfitAndLoss(pos, price, b) ==
  FMul(price - pos.entry_price, pos.volume)
  - RMul(FMul(pos.entry_price + price, pos.volume), b.trade_fee)

BalanceAfterSell(balance, pos, price, b) ==
  balance + FMul(price, pos.volume) + ProfitAndLoss(pos, price, b)

PaperSell(balance, pos, price, source, b) ==
  [ balance |-> BalanceAfterSell(balance, pos, price, b),
    position |-> << >>,
    events |-> << [ type |-> "sell", price |-> price, source |-> source,
                    entry |-> pos.entry_price, volume |-> pos.volume,
                    before |-> balance,
                    after |-> BalanceAfterSell(balance, pos, price, b) ] >> ]

(* the automatic evaluation of a cycle (lines 730-784); skip is the        *)
(* continue that ends the cycle before the user is asked                   *)
paper_auto(s, pos, balance, d, cfg, clock, price, b) ==
  LET df == calculate_indicators(d, cfg)
      last_row == get_last_valid_row(df, clock)
      kept == [ state |-> s, position |-> pos, balance |-> balance,
                events |-> << >>, skip |-> FALSE ]
  IN IF empty(df) THEN kept
     ELSE IF ~last_row.found THEN [ kept EXCEPT !.skip = TRUE ]
     ELSE LET data_valid == [ df EXCEPT !.rows =
                                SubSeq(df.rows, 1,
                                       IF last_row.name < 0 THEN 0
                                       ELSE last_row.name) ]
              r == auto_action(s, pos # << >>, data_valid, cfg, clock)
              held == [ kept EXCEPT !.state = r.state ]
          IN IF ~r.signal THEN held
             ELSE IF price = None THEN [ held EXCEPT !.skip = TRUE ]
             ELSE IF pos = << >>
             THEN IF FMul(balance, b.investment_fraction) >= 1 /\ balance > 0
                  THEN [ state |-> r.state, skip |-> FALSE ]
                       @@ PaperBuy(balance, price, "auto", clock, b)
                  ELSE held
             ELSE [ state |-> r.state, skip |-> FALSE ]
                  @@ PaperSell(balance, pos[1], price, "auto", b)

(* the command the user types at the end of a cycle (lines 798-846) *)
paper_manual(pos, balance, user_input, price, clock, b) ==
  LET kept == [ position |-> pos, balance |-> balance, events |-> << >> ]
  IN IF user_input = "b" /\ pos = << >>
     THEN IF price = None \/ price = 0 THEN kept
          ELSE IF balance <= 0 THEN kept
          ELSE IF FMul(balance, b.investment_fraction) < 1 THEN kept
          ELSE PaperBuy(balance, price, "manual", clock, b)
     ELSE IF user_input = "s" /\ pos # << >>
     THEN IF price = None \/ price = 0 THEN kept
          ELSE PaperSell(balance, pos[1], price, "manual", b)
     ELSE kept

RECURSIVE SaveAll(_, _)
SaveAll(table, events) ==
  IF events = << >> THEN table
  ELSE SaveAll(save_trade(table, events[1].type, events[1].price,
                          events[1].source),
               Tail(events))

RECURSIVE Rounds(_, _)
Rounds(round, events) ==
  IF events = << >> THEN round
  ELSE LET e == events[1]
       IN Rounds(IF e.type = "buy"
                 THEN [ NoRound EXCEPT !.known = TRUE, !.before = e.before ]
                 ELSE [ round EXCEPT !.closed = TRUE, !.entry = e.entry,
                                     !.exit = e.price, !.volume = e.volume,
                                     !.after = e.after ],
                 Tail(events))

PaperCycle ==
  /\ driver = "paperloop"
  /\ ~paper.stopped
  /\ Len(db) + 4 <= 2 * MaxSaves
  /\ \E should_evaluate \in BOOLEAN, realtime_price \in PaperPrices,
        user_input \in {"", "b", "s", "q"}, manual_price \in PaperPrices :
       \E auto \in { IF should_evaluate
                     THEN paper_auto(strategy, paper.position, paper.balance,
                                     data, config, now, realtime_price, bt)
                     ELSE [ state |-> strategy, position |-> paper.position,
                            balance |-> paper.balance, events |-> << >>,
                            skip |-> FALSE ] } :
       \E manual \in { IF auto.skip
                       THEN [ position |-> auto.position,
                              balance |-> auto.balance, events |-> << >> ]
                       ELSE paper_manual(auto.position, auto.balance,
                                         user_input, manual_price, now, bt) } :
       \E events \in { auto.events \o manual.events } :
          /\ strategy' = auto.state
          /\ db' = SaveAll(db, events)
          /\ paper' = [ balance |-> manual.balance,
                        position |-> manual.position,
                        stopped |-> ~auto.skip /\ user_input = "q",
                        ended |-> TRUE,
                        round |-> Rounds(paper.round, events) ]
  /\ UNCHANGED <<driver, config, data, now, bt, pc, i, position, capital,
                 final_capital, trades, trade_id, lastCall, runs, first,
                 metrics, heap, instances, solo, opened, history, live,
                 call, limiter, fetch>>

InitPaperLoop ==
  /\ driver = "paperloop"
  /\ config = BaseConfig
  /\ \E bar \in LiveBars : data = DataFrame(<< bar >>, min_periods(config))
  /\ now = 1
  /\ bt = CHOOSE b \in BtParams : b.spread = 0
  /\ strategy = FreshStrategy
  /\ pc = "poll"
  /\ i = 0
  /\ position = << >>
  /\ capital = bt.initial_capital
  /\ final_capital = bt.initial_capital
  /\ trades = << >>
  /\ trade_id = 0
  /\ lastCall = NoCall
  /\ runs = 1
  /\ first = NoRun
  /\ metrics = << >>
  /\ heap = ModuleHeap
  /\ instances = [ x \in Inst |-> NoInstance ]
  /\ solo = [ x \in Inst |-> NoSolo ]
  /\ db \in { << >>, save_trade(<< >>, "buy", 10000, "manual") }
  /\ opened = NotAsked
  /\ history = << >>
  /\ live = << >>
  /\ paper = [ balance |-> bt.initial_capital,
              position |-> get_open_position(db), stopped |-> FALSE,
              ended |-> FALSE, round |-> NoRound ]
  /\ call = << >>
  /\ limiter = << >>
  /\ fetch = << >>

NextPaperLoop ==
  \/ LiveAppend
  \/ PaperCycle

SpecPaperLoop == InitPaperLoop /\ [][NextPaperLoop]_vars

-----------------------------------------------------------------------------
(* The retry decorator (live_paper.py retry).  One call of the wrapped     *)
(* function f_retry; every invocation of f returns a value or raises.      *)

MaxTries == 3

ExceptionToCheck == { "ConnectionError", "Timeout" }

Exceptions == ExceptionToCheck \cup { "ValueError", "KeyError" }

Outcomes ==
  { [ kind |-> "return", value |-> v ] : v \in 1..2 }
  \cup { [ kind |-> "raise", value |-> e ] : e \in Exceptions }

Caught(outcome) ==
  outcome.kind = "raise" /\ outcome.value \in ExceptionToCheck

RetryingOnLast(mtries) == mtries > 0

(* while mtries > 1 *)
Retrying(mtries) == mtries > 1

(* one invocation of f, inside the retry loop or as the final attempt *)
f_retry(c, outcome) ==
  LET invoked == [ c EXCEPT !.invocations = Append(@, outcome) ]
  IN IF Retrying(c.mtries)
     THEN IF outcome.kind = "return"
          THEN [ invoked EXCEPT !.status = "returned", !.result = outcome ]
          ELSE IF Caught(outcome)
          THEN [ invoked EXCEPT !.slept = @ + c.mdelay,
                                !.mtries = @ - 1,
                                !.mdelay = @ * c.backoff ]
          ELSE [ invoked EXCEPT !.status = "raised", !.result = outcome ]
     ELSE IF outcome.kind = "return"
          THEN [ invoked EXCEPT !.status = "returned", !.result = outcome ]
          ELSE [ invoked EXCEPT !.status = "raised", !.result = outcome ]

Invoke ==
  /\ driver = "retry"
  /\ call.status = "running"
  /\ \E outcome \in Outcomes : call' = f_retry(call, outcome)
  /\ UNCHANGED <<driver, config, data, now, bt, strategy, pc, i, position,
                 capital, final_capital, trades, trade_id, lastCall, runs,
                 first, metrics, heap, instances, solo, db, opened,
                 history, live, paper, limiter, fetch>>

InitRetry ==
  /\ driver = "retry"
  /\ config = BaseConfig
  /\ data = DataFrame(<< >>, 0)
  /\ now = 0
  /\ bt = CHOOSE b \in BtParams : b.spread = 0
  /\ strategy = FreshStrategy
  /\ pc = "poll"
  /\ i = 0
  /\ position = << >>
  /\ capital = bt.initial_capital
  /\ final_capital = bt.initial_capital
  /\ trades = << >>
  /\ trade_id = 0
  /\ lastCall = NoCall
  /\ runs = 1
  /\ first = NoRun
  /\ metrics = << >>
  /\ heap = ModuleHeap
  /\ instances = [ x \in Inst |-> NoInstance ]
  /\ solo = [ x \in Inst |-> NoSolo ]
  /\ db = << >>
  /\ opened = NotAsked
  /\ history = << >>
  /\ live = << >>
  /\ paper = << >>
  /\ \E tries \in 1..MaxTries, delay \in 1..2 :
        call = [ tries |-> tries, delay |-> delay, backoff |-> 2,
                 mtries |-> tries, mdelay |-> delay, slept |-> 0,
                 invocations |-> << >>, status |-> "running",
                 result |-> << >> ]
  /\ limiter = << >>
  /\ fetch = << >>

NextRetry == Invoke

SpecRetry == InitRetry /\ [][NextRetry]_vars

-----------------------------------------------------------------------------
(* The local rate limiter (live_paper.py rate_limit_throttle).  Times are  *)
(* in tenths of a second.                                                  *)

MaxThrottleCalls == 9

TicksPerSecond == 10

RATE_LIMIT_POINTS == 15

RATE_LIMIT_WINDOW == 3

AddOrderPoints == 2

DefaultPoints == 1

ENDPOINT_POINTS(endpoint) ==
  IF endpoint = "AddOrder" THEN AddOrderPoints ELSE DefaultPoints

Endpoints == { "AddOrder", "Ticker" }

(* time elapsed between two calls of the throttle: none, or two seconds *)
Gaps == { 0, 2 * TicksPerSecond }

RECURSIVE SumSeq(_)
SumSeq(seq) == IF seq = << >> THEN 0 ELSE Head(seq) + SumSeq(Tail(seq))

(* while api_call_times and now - api_call_times[0] > RATE_LIMIT_WINDOW *)
RECURSIVE Expire(_, _)
Expire(q, t) ==
  IF q.times # << >> /\ t - Head(q.times) > RATE_LIMIT_WINDOW * TicksPerSecond
  THEN Expire([ times |-> Tail(q.times), points |-> Tail(q.points) ], t)
  ELSE q

(* time.sleep(max(sleep_time, 0.1)) *)
SleepFor(sleep_time) == IF sleep_time > 1 THEN sleep_time ELSE 1

rate_limit_throttle(q, t, endpoint) ==
  LET kept == Expire(q, t)
      used_points == SumSeq(kept.points)
      endpoint_points == ENDPOINT_POINTS(endpoint)
      recorded ==
        IF used_points + endpoint_points > RATE_LIMIT_POINTS
        THEN t + SleepFor(RATE_LIMIT_WINDOW * TicksPerSecond
                          - (t - Head(kept.times)))
        ELSE t
  IN [ times |-> Append(kept.times, recorded),
       points |-> Append(kept.points, endpoint_points),
       clock |-> recorded ]

Throttle ==
  /\ driver = "limiter"
  /\ limiter.calls < MaxThrottleCalls
  /\ \E endpoint \in Endpoints, gap \in Gaps :
       LET q == rate_limit_throttle([ times |-> limiter.times,
                                      points |-> limiter.points ],
                                    limiter.clock + gap, endpoint)
       IN limiter' = [ times |-> q.times, points |-> q.points,
                       clock |-> q.clock, calls |-> limiter.calls + 1 ]
  /\ UNCHANGED <<driver, config, data, now, bt, strategy, pc, i, position,
                 capital, final_capital, trades, trade_id, lastCall, runs,
                 first, metrics, heap, instances, solo, db, opened,
                 history, live, paper, call, fetch>>

InitLimiter ==
  /\ driver = "limiter"
  /\ config = BaseConfig
  /\ data = DataFrame(<< >>, 0)
  /\ now = 0
  /\ bt = CHOOSE b \in BtParams : b.spread = 0
  /\ strategy = FreshStrategy
  /\ pc = "poll"
  /\ i = 0
  /\ position = << >>
  /\ capital = bt.initial_capital
  /\ final_capital = bt.initial_capital
  /\ trades = << >>
  /\ trade_id = 0
  /\ lastCall = NoCall
  /\ runs = 1
  /\ first = NoRun
  /\ metrics = << >>
  /\ heap = ModuleHeap
  /\ instances = [ x \in Inst |-> NoInstance ]
  /\ solo = [ x \in Inst |-> NoSolo ]
  /\ db = << >>
  /\ opened = NotAsked
  /\ history = << >>
  /\ live = << >>
  /\ paper = << >>
  /\ call = << >>
  /\ limiter = [ times |-> << >>, points |-> << >>, clock |-> 0, calls |-> 0 ]
  /\ fetch = << >>

NextLimiter == Throttle

SpecLimiter == InitLimiter /\ [][NextLimiter]_vars

-----------------------------------------------------------------------------
(* The trade-download loop of the data updater (data/update_data.py main). *)
(* The cursor 'last' the exchange returns is never before the cursor it    *)
(* was asked with.                                                         *)

MaxCursor == 4

max_attempts == 5

(* what fetch_trades returns: (None, since_ns) or (trades, last) *)
FetchResults(since) ==
  { [ trades |-> FALSE, last |-> since ] }
  \cup { [ trades |-> TRUE, last |-> l ] : l \in since..MaxCursor }

AttemptAfterKept(attempt, advanced) == attempt + 1

AttemptAfter(attempt, advanced) == IF advanced THEN 0 ELSE attempt + 1

(* one pass of the while True loop *)
download_step(f, r) ==
  LET counted == [ f EXCEPT !.iterations = @ + 1, !.last = r ]
  IN IF ~r.trades
     THEN [ counted EXCEPT !.status = "done" ]
     ELSE LET advanced == r.last # f.since_ns
              attempt == AttemptAfter(f.attempt, advanced)
          IN IF ~advanced /\ attempt >= max_attempts
             THEN [ counted EXCEPT !.attempt = attempt, !.status = "done" ]
             ELSE [ counted EXCEPT
                      !.attempt = attempt,
                      !.since_ns = r.last,
                      !.status = IF r.last >= f.end_time
                                 THEN "done" ELSE "running" ]

FetchStep ==
  /\ driver = "updater"
  /\ fetch.status = "running"
  /\ \E r \in FetchResults(fetch.since_ns) : fetch' = download_step(fetch, r)
  /\ UNCHANGED <<driver, config, data, now, bt, strategy, pc, i, position,
                 capital, final_capital, trades, trade_id, lastCall, runs,
                 first, metrics, heap, instances, solo, db, opened,
                 history, live, paper, call, limiter>>

InitFetch ==
  /\ driver = "updater"
  /\ config = BaseConfig
  /\ data = DataFrame(<< >>, 0)
  /\ now = 0
  /\ bt = CHOOSE b \in BtParams : b.spread = 0
  /\ strategy = FreshStrategy
  /\ pc = "poll"
  /\ i = 0
  /\ position = << >>
  /\ capital = bt.initial_capital
  /\ final_capital = bt.initial_capital
  /\ trades = << >>
  /\ trade_id = 0
  /\ lastCall = NoCall
  /\ runs = 1
  /\ first = NoRun
  /\ metrics = << >>
  /\ heap = ModuleHeap
  /\ instances = [ x \in Inst |-> NoInstance ]
  /\ solo = [ x \in Inst |-> NoSolo ]
  /\ db = << >>
  /\ opened = NotAsked
  /\ history = << >>
  /\ live = << >>
  /\ paper = << >>
  /\ call = << >>
  /\ limiter = << >>
  /\ \E end_time \in 1..MaxCursor, start_time \in 0..MaxCursor :
        /\ start_time <= end_time
        /\ fetch = [ since_ns |-> start_time, start |-> start_time,
                      end_time |-> end_time, attempt |-> 0,
                      status |-> "running", iterations |-> 0,
                      last |-> [ trades |-> TRUE, last |-> start_time ] ]

NextFetch == FetchStep

SpecFetch == InitFetch /\ [][NextFetch]_vars

(* every pass of the loop completes: fetch_trades returns or fails *)
SpecFetchFair == SpecFetch /\ WF_vars(FetchStep)

-----------------------------------------------------------------------------
(* Properties *)

Backtest == driver = "backtest"

Poller == driver = "poller"

CalledRow == loc(data, lastCall.name)

Last(seq) == seq[Len(seq)]

ForcedClose == Backtest /\ pc = "done" /\ position # << >>

RECURSIVE SumProfit(_)
SumProfit(seq) ==
  IF seq = << >> THEN 0 ELSE SumProfit(SubSeq(seq, 1, Len(seq) - 1)) + Last(seq).profit

(* C1: during a backtest run started with a fresh Strategy at most one     *)
(* position is open: the Backtester holds at most one position record, it  *)
(* holds one exactly when the engine is IN_POSITION, every opened position *)
(* is either the open one or in the ledger, entry_signal returns False on  *)
(* every row while a position is open, and trade_id is incremented only    *)
(* from a state without a position.                                        *)
C1_State ==
  (Backtest /\ pc = "loop") =>
    /\ Len(position) <= 1
    /\ (position # << >>) <=> strategy.position_open
    /\ trade_id = Len(trades) + Len(position)
    /\ position # << >> =>
         \A p \in 0..(len(data) - 1) :
           ~entry_signal(strategy, iloc(data, p), data, TRUE, config, now).signal

C1_Step ==
  trade_id' # trade_id =>
    /\ position = << >>
    /\ ~strategy.position_open
    /\ trade_id' = trade_id + 1
    /\ Len(position') = 1

C1_AtMostOnePosition == []C1_State /\ [][C1_Step]_vars

C1_Witness ==
  /\ Backtest /\ pc = "loop"
  /\ position # << >>
  /\ trade_id = 2
  /\ i < len(data)

(* C2: exit_signal on a FLAT engine and entry_signal on an IN_POSITION     *)
(* engine return False and leave every state field unchanged.              *)
C2_Idempotence ==
  /\ (lastCall.op = "exit" /\ ~lastCall.before.position_open) =>
       (~lastCall.signal /\ strategy = lastCall.before)
  /\ (lastCall.op = "entry" /\ lastCall.before.position_open) =>
       (~lastCall.signal /\ strategy = lastCall.before)

C2_Witness ==
  /\ lastCall.op = "entry"
  /\ lastCall.before.position_open
  /\ data.indicators
  /\ ~FutureCandle(CalledRow, now)
  /\ range_signal(CalledRow, config)

(* C3: once entry has fired on bar T, exit_signal on bar T returns False   *)
(* and the position stays open; in a backtest no trade closed by           *)
(* exit_signal has exit_time equal to its entry_time.                      *)
C3_SameBarGuard ==
  /\ ( /\ lastCall.op = "exit"
       /\ lastCall.before.position_open
       /\ lastCall.before.last_entry_time = lastCall.name ) =>
       (~lastCall.signal /\ strategy = lastCall.before)
  /\ (Backtest /\ pc = "loop") =>
       \A k \in 1..Len(trades) : trades[k].exit_time # trades[k].entry_time

C3_Witness ==
  /\ lastCall.op = "exit"
  /\ lastCall.before.position_open
  /\ lastCall.before.last_entry_time = lastCall.name
  /\ data.indicators
  /\ ~FutureCandle(CalledRow, now)
  /\ trend_exit(lastCall.before, lastCall.before.highest_price, CalledRow, config)
  /\ ~lastCall.before.is_range_trading
  /\ strategy.position_open

(* C4: the regime flag chosen when an entry fires stays constant until the *)
(* exit of that position fires; a RANGE position is closed only by the     *)
(* RANGE exit rule and a TREND position only by the TREND exit rules.      *)
C4_PollerState ==
  Poller =>
    /\ ( /\ lastCall.op \in {"entry", "exit"}
         /\ lastCall.before.position_open
         /\ strategy.position_open ) =>
         strategy.is_range_trading = lastCall.before.is_range_trading
    /\ (lastCall.op = "entry" /\ lastCall.signal) =>
         strategy.is_range_trading = RangeMode(CalledRow, config)
    /\ (lastCall.op = "exit" /\ lastCall.signal) =>
         IF lastCall.before.is_range_trading
         THEN sell_near_resistance(CalledRow, config)
         ELSE trend_exit(lastCall.before,
                         PyMax(lastCall.before.highest_price, CalledRow.Close),
                         CalledRow, config)

C4_BacktestStep ==
  (Backtest /\ position # << >> /\ position' # << >> /\ pc' = "loop") =>
     strategy'.is_range_trading = strategy.is_range_trading

C4_RegimeFrozen == []C4_PollerState /\ [][C4_BacktestStep]_vars

C4_Witness ==
  /\ lastCall.op = "exit"
  /\ ~lastCall.signal
  /\ lastCall.before.is_range_trading
  /\ data.indicators
  /\ ~FutureCandle(CalledRow, now)
  /\ lastCall.before.last_entry_time # lastCall.name
  /\ ~RangeMode(CalledRow, config)
  /\ trend_exit(lastCall.before,
                PyMax(lastCall.before.highest_price, CalledRow.Close),
                CalledRow, config)
  /\ strategy.is_range_trading

(* C5: every trade of the ledger has                                       *)
(* net_profit = (exit_price - entry_price) * shares                        *)
(*              - (entry_price + exit_price) * shares * fee_rate           *)
(* over the prices and shares recorded in the trade.                       *)
C5_NetProfit ==
  \A k \in 1..Len(trades) :
    LET t == trades[k]
    IN t.profit = ((t.exit_price - t.entry_price) * t.shares) \div S
                  - ((((t.entry_price + t.exit_price) * t.shares) \div S)
                      * bt.trade_fee) \div RS

C5_Witness ==
  /\ ForcedClose
  /\ Len(trades) = 2
  /\ trades[1].profit > 0
  /\ trades[2].profit < 0

(* C6: capital is initial_capital plus the net profits of the trades in    *)
(* the ledger, it changes only when a trade is appended, by that trade's   *)
(* net profit, and final_capital equals capital.                           *)
C6_State ==
  /\ capital = bt.initial_capital + SumProfit(trades)
  /\ final_capital = capital

C6_Step ==
  capital' # capital =>
    /\ Len(trades') = Len(trades) + 1
    /\ SubSeq(trades', 1, Len(trades)) = trades
    /\ capital' = capital + Last(trades').profit

C6_CapitalLedger == []C6_State /\ [][C6_Step]_vars

C6_Witness ==
  /\ Backtest /\ pc = "done"
  /\ Len(trades) = 2
  /\ capital # bt.initial_capital
  /\ trades[1].profit # 0 /\ trades[2].profit # 0

EntryRow == loc(data, position[1].entry_time)

(* C7 as stated: the opened position has                                   *)
(* shares = (capital * investment_fraction) / close of the entry bar.      *)
C7_SharesByClose ==
  (Backtest /\ pc = "loop" /\ position # << >>) =>
    position[1].shares =
      (((capital * bt.investment_fraction) \div S) * S) \div EntryRow.Close

(* C7 amended: the opened position has                                     *)
(* shares = (capital * investment_fraction)                                *)
(*          / (close * (1 + spread + slippage)),                           *)
(* capital being the compounded capital at the entry, and that divisor is  *)
(* the entry_price recorded in the position.                               *)
C7_SharesByEntryPrice ==
  (Backtest /\ pc = "loop" /\ position # << >>) =>
    /\ position[1].entry_price =
         (EntryRow.Close * (RS + bt.spread + bt.slippage)) \div RS
    /\ position[1].shares =
         (((capital * bt.investment_fraction) \div S) * S)
           \div ((EntryRow.Close * (RS + bt.spread + bt.slippage)) \div RS)

C7_Witness ==
  /\ Backtest /\ pc = "loop"
  /\ position # << >>
  /\ position[1].trade_id = 2
  /\ capital # bt.initial_capital
  /\ bt.spread + bt.slippage > 0

OpenedOnce ==
  /\ Len(trades) = trade_id
  /\ \A k \in 1..Len(trades) : trades[k].trade_id = k
  /\ Last(trades).trade_id = position[1].trade_id
  /\ Last(trades).entry_time = position[1].entry_time
  /\ Last(trades).entry_price = position[1].entry_price
  /\ Last(trades).shares = position[1].shares

(* C8 as stated: a position open at the end of the loop is appended        *)
(* exactly once, with exit_time the last bar's timestamp and exit_price    *)
(* the last bar's close.                                                   *)
C8_ForcedCloseAtClose ==
  ForcedClose =>
    /\ OpenedOnce
    /\ Last(trades).exit_time = LastIndex(data)
    /\ Last(trades).exit_price = Last(data.rows).Close

(* C8 amended: a position open at the end of the loop is appended exactly  *)
(* once, with exit_time the last bar's timestamp and exit_price the last   *)
(* bar's close * (1 - spread - slippage).                                  *)
C8_ForcedCloseAtAdjustedClose ==
  ForcedClose =>
    /\ OpenedOnce
    /\ Last(trades).exit_time = LastIndex(data)
    /\ Last(trades).exit_price =
         (Last(data.rows).Close * (RS - bt.spread - bt.slippage)) \div RS

C8_Witness ==
  /\ ForcedClose
  /\ Len(trades) = 2
  /\ bt.spread + bt.slippage > 0
  /\ Last(trades).entry_time < LastIndex(data)

(* C9: when run returns no position is open: every opened position is in   *)
(* the ledger and the engine is FLAT, its entry price, high-water mark and *)
(* regime cleared.                                                         *)
C9_FlatAtReturn ==
  (Backtest /\ pc = "done") =>
    /\ Len(trades) = trade_id
    /\ ~strategy.position_open
    /\ strategy.entry_price = None
    /\ strategy.highest_price = None
    /\ ~strategy.is_range_trading

(* C10: two runs over identical bars and identical configuration produce   *)
(* identical ledgers and the same final capital.                           *)
C10_Deterministic ==
  (pc = "done" /\ runs = 2) =>
    /\ trades = first.trades
    /\ final_capital = first.final_capital

-----------------------------------------------------------------------------
(* Input errors of Backtester.run *)

ShortInput == ~empty(data) /\ len(data) < min_periods(config)

(* C12: when the bar sequence is shorter than the longest lookback, the    *)
(* sequence the indicator calculation hands on to the bar loop of          *)
(* Backtester.run contains no bars.                                        *)
C12_ShortYieldsEmpty ==
  (Backtest /\ pc = "loop" /\ len(data) < min_periods(config)) => empty(data)

(* C13: a run over a non-empty bar sequence shorter than the lookback      *)
(* aborts: it neither iterates the bars nor completes.                     *)
C13_ShortInputAborts ==
  (Backtest /\ ShortInput) => pc \notin {"loop", "done"}

(* C14: a run on an empty bar sequence fails before any signal is          *)
(* evaluated: it ends in the error state and never in the loop, the ledger *)
(* is empty, the capital is the initial capital, the engine is untouched;  *)
(* and the error state is entered on empty data only.                      *)
C14_EmptyRunFails ==
  /\ (Backtest /\ len(data) = 0) =>
        /\ pc \in {"new", "error"}
        /\ trades = << >>
        /\ trade_id = 0
        /\ position = << >>
        /\ capital = bt.initial_capital
        /\ final_capital = bt.initial_capital
        /\ strategy = FreshStrategy
  /\ pc = "error" => len(data) = 0

C14_Witness == Backtest /\ pc = "error" /\ len(data) = 0

-----------------------------------------------------------------------------
(* Rows with undefined indicator fields *)

IndicatorFields ==
  { "volume_sma", "adx", "rsi", "sma_short", "sma_long", "macd",
    "macd_signal", "atr", "atr_sma", "bollinger_lower", "bollinger_upper" }

Undefined(row) == \E f \in IndicatorFields : IsNaN(row[f])

(* C18: a bar with an undefined indicator field never produces a decision: *)
(* entry_signal and exit_signal return False on it and leave the position  *)
(* state as it was, and in a run no trade is entered on such a bar and no  *)
(* trade is exited on one by an exit signal.                               *)
C18_UndefinedBarNoDecision ==
  /\ (Poller /\ lastCall.op # "none" /\ Undefined(CalledRow)) =>
        /\ ~lastCall.signal
        /\ strategy.position_open = lastCall.before.position_open
  /\ Backtest =>
        \A k \in 1..Len(trades) :
           /\ ~Undefined(loc(data, trades[k].entry_time))
           /\ Undefined(loc(data, trades[k].exit_time)) =>
                 (ForcedClose /\ k = Len(trades))

(* C19: the ledger is append-only and ordered: a step of the run leaves it *)
(* unchanged or appends one trade, the k-th trade has trade_id k, and each *)
(* trade's entry_time is strictly later than the previous trade's          *)
(* exit_time.                                                              *)
C19_State ==
  \A k \in 1..Len(trades) :
     /\ trades[k].trade_id = k
     /\ k > 1 => trades[k].entry_time > trades[k - 1].exit_time

C19_Step ==
  \/ trades' = trades
  \/ /\ Len(trades') = Len(trades) + 1
     /\ SubSeq(trades', 1, Len(trades)) = trades

C19_LedgerOrdered == []C19_State /\ [][C19_Step]_vars

C19_Witness ==
  /\ Backtest
  /\ Len(trades) >= 2
  /\ trades[2].trade_id = 2
  /\ trades[2].entry_time > trades[1].exit_time

-----------------------------------------------------------------------------
(* Metrics *)

Computed == metrics # << >>

(* C16: calculate_metrics on a ledger with zero trades returns             *)
(* number_of_trades 0, win rate 0, total profit 0, total fees 0, max       *)
(* drawdown 0, Sharpe and Sortino ratio 0, average trade duration 0,       *)
(* expectancy 0, buy-and-hold profit 0 and the infinite placeholder as     *)
(* profit factor.                                                          *)
C16_ZeroTradeMetrics ==
  (Computed /\ trades = << >>) =>
     LET m == metrics[1]
     IN /\ m.trades.number_of_trades = 0
        /\ m.trades.win_rate = 0
        /\ m.capital.total_profit = 0
        /\ m.fees.total_fees = 0
        /\ m.performance.max_drawdown = 0
        /\ m.performance.sharpe_ratio = 0
        /\ m.performance.sortino_ratio = 0
        /\ m.trades.avg_trade_duration_hours = 0
        /\ m.trades.expectancy = 0
        /\ m.buy_and_hold.profit = 0
        /\ m.trades.profit_factor = Inf

C16_Witness ==
  /\ Computed
  /\ trades = << >>
  /\ len(data) > 0
  /\ metrics[1].trades.profit_factor = Inf

(* C17: the equity curve has one point more than the ledger has trades, it *)
(* starts at initial_capital, its k-th further point is initial_capital    *)
(* plus the sum of the first k net profits, and the reported max drawdown  *)
(* is never positive.                                                      *)
C17_EquityCurve ==
  Computed =>
     LET curve == equity_curve(trades, bt.initial_capital)
     IN /\ Len(curve) = Len(trades) + 1
        /\ curve[1] = bt.initial_capital
        /\ \A k \in 1..Len(trades) :
              curve[k + 1] = bt.initial_capital + SumProfit(SubSeq(trades, 1, k))
        /\ metrics[1].performance.max_drawdown <= 0
        /\ metrics[1].performance.max_drawdown = Round2(max_drawdown(curve))

C17_Witness ==
  /\ Computed
  /\ Len(trades) = 2
  /\ metrics[1].performance.max_drawdown < 0

-----------------------------------------------------------------------------
(* Live polling against the historical loop *)

(* C11: fed the same enriched bars one at a time as the most recent bar    *)
(* (is_backtest=False), the engine makes the decision and the state        *)
(* transition it makes in the historical loop (is_backtest=True): in every *)
(* iteration of the loop, the live poll of that bar from the same engine   *)
(* state, under the same evaluation clock, returns the signal the loop     *)
(* acted on and leaves the state the loop left.                            *)
C11_Step ==
  (Backtest /\ pc = "loop" /\ i < len(data) /\ i' = i + 1) =>
     LET row == iloc(data, i)
         r == auto_action(strategy, position # << >>,
                          PollView(data, row.name), config, now)
     IN /\ r.state = strategy'
        /\ r.signal = (position' # position)

C11_LiveMatchesBacktest == [][C11_Step]_vars

C11_Witness ==
  /\ Backtest
  /\ pc = "loop"
  /\ Len(trades) = 1
  /\ position # << >>
  /\ LET k == position[1].entry_time
     IN /\ k = LastIndex(PollView(data, k))
        /\ k < LastIndex(data)
        /\ auto_action(FreshStrategy, FALSE, PollView(data, k), config,
                       now).signal

-----------------------------------------------------------------------------
(* Construction and independence of Strategy instances *)

(* C15: constructing a Strategy from a configuration mapping that lacks a  *)
(* recognized parameter key fails with the KeyError naming the missing     *)
(* keys, and no instance is created.                                       *)
C15_MissingKeyFails ==
  \A x \in Inst :
     ( /\ instances[x].attempted
       /\ instances[x].provided.given
       /\ missing_keys(StrategyParams, instances[x].provided.map) # {} )
     => (~instances[x].built /\ instances[x].error = "KeyError")

(* C20: two Strategy instances have independent state: a call on one       *)
(* instance leaves the other's position state and configuration unchanged, *)
(* and each instance holds the configuration, the state and the last       *)
(* signal it would have if it were driven alone.                           *)
C20_State ==
  \A x \in Inst :
     instances[x].built =>
        /\ heap[instances[x].config] = solo[x].config
        /\ instances[x].state = solo[x].state
        /\ instances[x].signal = solo[x].signal

C20_Step ==
  \A x, y \in Inst :
     (x # y /\ instances'[x] # instances[x]) =>
        /\ instances'[y] = instances[y]
        /\ instances[y].built =>
              heap'[instances[y].config] = heap[instances[y].config]

C20_Independent == []C20_State /\ [][C20_Step]_vars

C20_Witness ==
  /\ instances["A"].built
  /\ instances["B"].built
  /\ heap[instances["A"].config] # heap[instances["B"].config]
  /\ instances["A"].state.position_open
  /\ ~instances["B"].state.position_open
  /\ instances["B"].state.highest_price = None
  /\ instances["A"].signal

-----------------------------------------------------------------------------
(* The trades table *)

Buys == { k \in 1..Len(db) : db[k].type = "buy" }

Sells == { k \in 1..Len(db) : db[k].type = "sell" }

(* C21: get_open_position returns the most recent buy record (entry_price, *)
(* volume, entry_time, source) if and only if the table holds a buy and no *)
(* sell with an id greater than the latest buy's id; otherwise it returns  *)
(* None.                                                                   *)
C21_OpenPosition ==
  opened.asked =>
     IF Buys # {} /\ \A k \in Sells : db[k].id < db[MaxOf(Buys)].id
     THEN LET buy == db[MaxOf(Buys)]
          IN opened.position =
               << [ entry_price |-> buy.price, volume |-> buy.volume,
                    entry_time |-> buy.id, source |-> buy.source ] >>
     ELSE opened.position = << >>

C21_Witness ==
  /\ opened.asked
  /\ opened.position # << >>
  /\ Sells # {}
  /\ opened.position[1].entry_time > MaxOf(Sells)

-----------------------------------------------------------------------------
(* Entry and exit rules.  The rules are written out here from their        *)
(* statement, on the fields of the row the poller called the engine on.    *)

PrevRow == iloc(data, get_loc(data, lastCall.name) - 1)

(* the call reached the rules: no guard of entry_signal rejected the bar *)
EntryEvaluated ==
  /\ Poller
  /\ lastCall.op = "entry"
  /\ data.indicators
  /\ CalledRow.name <= now
  /\ ~lastCall.before.position_open
  /\ (lastCall.is_backtest \/ lastCall.name = LastIndex(data))
  /\ get_loc(data, lastCall.name) >= 1

ExitEvaluated ==
  /\ Poller
  /\ lastCall.op = "exit"
  /\ data.indicators
  /\ CalledRow.name <= now
  /\ lastCall.before.position_open
  /\ lastCall.before.last_entry_time # lastCall.name
  /\ (lastCall.is_backtest \/ lastCall.name = LastIndex(data))

AdxBelowLateral(row, cfg) == Lt(row.adx, cfg.lateral_adx_threshold * S)

RangeEntryRule(row, cfg) ==
  /\ AdxBelowLateral(row, cfg)
  /\ Lt(row.Close, FMul(FMul(row.bollinger_lower, cfg.support_margin), 1020))
  /\ Gt(row.Volume, FMul(1500, row.volume_sma))
  /\ Gt(row.rsi, 20 * S)

TrendPrimary(row, prev, cfg) ==
  /\ Gt(row.sma_short, row.sma_long)
  /\ Gt(prev.sma_short, prev.sma_long)
  /\ Gt(row.macd, FSub(row.macd_signal, cfg.macd_threshold * S))
  /\ Lt(row.rsi, cfg.rsi_threshold * S)

(* a secondary condition whose toggle is off is not tested and counts as   *)
(* one that holds                                                          *)
TrendSecondary(row, cfg) ==
  { c \in 1..5 :
      \/ c = 1 /\ Gt(row.Volume, FMul(1200, row.volume_sma))
      \/ c = 2 /\ (~cfg.use_supertrend \/ row.supertrend = 1)
      \/ c = 3 /\ (~cfg.use_adx_positive \/ Gt(row.adx, cfg.adx_threshold * S))
      \/ c = 4 /\ (~cfg.use_macd_positive \/ Gt(row.macd, 0))
      \/ c = 5 /\ Gt(row.atr, row.atr_sma) }

TrendEntryRule(row, prev, cfg) ==
  TrendPrimary(row, prev, cfg) /\ Cardinality(TrendSecondary(row, cfg)) >= 3

C23_TrendEntry ==
  (EntryEvaluated
   /\ ~(config.lateral_mode /\ AdxBelowLateral(CalledRow, config))) =>
     /\ lastCall.signal = TrendEntryRule(CalledRow, PrevRow, config)
     /\ lastCall.signal => ~strategy.is_range_trading

C23_Witness ==
  /\ EntryEvaluated
  /\ ~AdxBelowLateral(CalledRow, config)
  /\ lastCall.signal
  /\ ~config.use_supertrend
  /\ CalledRow.supertrend = 0
  /\ Cardinality(TrendSecondary(CalledRow, config)) = 3

(* C24: in RANGE regime entry_signal fires if and only if ADX is below the *)
(* lateral threshold, close is below lower band * support_margin * 1.02,   *)
(* volume is above 1.5 times its baseline and RSI is above 20; an entry    *)
(* that leaves the engine in range trading satisfies all four.             *)
C24_RangeEntry ==
  /\ (EntryEvaluated
      /\ config.lateral_mode /\ AdxBelowLateral(CalledRow, config)) =>
        lastCall.signal = RangeEntryRule(CalledRow, config)
  /\ (Poller /\ lastCall.op = "entry" /\ lastCall.signal
      /\ strategy.is_range_trading) =>
        RangeEntryRule(CalledRow, config)

C24_Witness ==
  /\ EntryEvaluated
  /\ lastCall.signal
  /\ strategy.is_range_trading
  /\ ~Lt(CalledRow.Close, FMul(CalledRow.bollinger_lower, config.support_margin))

TrailingStop(highest, cfg) == FMul(highest, S - cfg.trailing_stop_percentage)

StopLoss(s, row, cfg) ==
  FSub(s.entry_price,
       FMul(FMul(cfg.stop_loss_atr_multiplier, row.atr), cfg.stop_loss_multiplier))

TakeProfitLevel(s, row, cfg) ==
  FAdd(s.entry_price,
       FMul(FMul(cfg.stop_loss_atr_multiplier, row.atr), cfg.take_profit_multiplier))

TimeBasedStop(s, row, cfg) ==
  /\ row.name - s.last_entry_time < cfg.time_based_stop_days
  /\ FDiv(row.Close - s.entry_price, s.entry_price) * 100
       < cfg.time_based_stop_loss_percent * S

AboveResistance(row, cfg) ==
  Gt(row.Close, FMul(row.bollinger_upper, cfg.resistance_margin))

(* C25: while a position entered in RANGE regime is open, exit_signal      *)
(* fires only on a bar whose close is above upper band * resistance_margin *)
(* and returns no signal on every other bar, whatever the stops say.       *)
C25_RangeExit ==
  (Poller /\ lastCall.op = "exit" /\ lastCall.before.position_open
   /\ lastCall.before.is_range_trading) =>
     /\ lastCall.signal => AboveResistance(CalledRow, config)
     /\ ExitEvaluated => (lastCall.signal = AboveResistance(CalledRow, config))

C25_Witness ==
  /\ ExitEvaluated
  /\ lastCall.before.is_range_trading
  /\ ~lastCall.signal
  /\ strategy.position_open
  /\ Lt(CalledRow.Close, TrailingStop(strategy.highest_price, config))

TrendExitRule(s, row, cfg) ==
  \/ Lt(row.macd, FSub(row.macd_signal, cfg.macd_threshold * S))
  \/ Lt(row.Close, TrailingStop(PyMax(s.highest_price, row.Close), cfg))
  \/ Lt(row.Close, StopLoss(s, row, cfg))
  \/ Gt(row.Close, TakeProfitLevel(s, row, cfg))
  \/ (cfg.use_supertrend /\ row.supertrend = 0)
  \/ TimeBasedStop(s, row, cfg)

(* C26: while a position entered in TREND regime is open, exit_signal on   *)
(* an evaluated later bar fires if and only if MACD is below signal minus  *)
(* threshold, or close is below the trailing stop, or below the stop-loss, *)
(* or above the take-profit, or the trend flag is 0 with its toggle on, or *)
(* the time-based stop holds.                                              *)
C26_TrendExit ==
  (ExitEvaluated /\ ~lastCall.before.is_range_trading
   /\ lastCall.name > lastCall.before.last_entry_time) =>
     lastCall.signal = TrendExitRule(lastCall.before, CalledRow, config)

C26_Witness ==
  /\ ExitEvaluated
  /\ ~lastCall.before.is_range_trading
  /\ lastCall.name > lastCall.before.last_entry_time
  /\ lastCall.signal
  /\ ~strategy.position_open
  /\ Gt(CalledRow.Close, TakeProfitLevel(lastCall.before, CalledRow, config))
  /\ ~Lt(CalledRow.macd, CalledRow.macd_signal)

PositionFieldsSet(s) ==
  s.entry_price # None /\ s.highest_price # None /\ s.last_entry_time # None

PositionFieldsCleared(s) ==
  s.entry_price = None /\ s.highest_price = None /\ s.last_entry_time = None

C28_State ==
  /\ strategy.position_open => PositionFieldsSet(strategy)
  /\ ~strategy.position_open => PositionFieldsCleared(strategy)
  /\ strategy.is_range_trading => strategy.position_open

C28_Step ==
  (lastCall'.op = "exit" /\ lastCall'.signal /\ lastCall' # lastCall) =>
     PositionFieldsCleared(strategy') /\ ~strategy'.position_open

(* C28: in every reachable state position_open is true exactly when        *)
(* entry_price, highest_price and last_entry_time are all set, the three   *)
(* are cleared by the call in which an exit fires, and is_range_trading is *)
(* true only while position_open is true.                                  *)
C28_FieldsAgree == []C28_State /\ [][C28_Step]_vars

C28_Witness ==
  /\ Poller
  /\ lastCall.op = "exit"
  /\ lastCall.signal
  /\ lastCall.before.is_range_trading
  /\ PositionFieldsSet(lastCall.before)
  /\ PositionFieldsCleared(strategy)

(* C29: a call of entry_signal or exit_signal on a bar whose timestamp is  *)
(* later than the evaluation time returns no signal and leaves every field *)
(* of the engine, the high-water mark included, as it was.                 *)
C29_FutureBarRejected ==
  (Poller /\ lastCall.op # "none" /\ CalledRow.name > now) =>
     ~lastCall.signal /\ strategy = lastCall.before

C29_Witness ==
  /\ Poller
  /\ lastCall.op = "exit"
  /\ CalledRow.name > now
  /\ lastCall.before.position_open
  /\ lastCall.before.last_entry_time < lastCall.name
  /\ CalledRow.Close > lastCall.before.highest_price
  /\ strategy.highest_price = lastCall.before.highest_price

SetMax(set) == CHOOSE m \in set : \A x \in set : x <= m

C27_State ==
  strategy.position_open =>
     /\ history.closes # {}
     /\ strategy.highest_price = SetMax(history.closes)
     /\ strategy.highest_price >= strategy.entry_price

C27_Step ==
  /\ (lastCall'.op = "entry" /\ lastCall'.signal /\ lastCall' # lastCall) =>
        strategy'.highest_price = loc(data, lastCall'.name).Close
  /\ (strategy.position_open /\ strategy'.position_open) =>
        strategy'.highest_price >= strategy.highest_price

(* C27: while a position is open the high-water mark equals the maximum of *)
(* the entry bar's close and the closes of the bars exit_signal has        *)
(* evaluated since the entry; it starts at the entry close, never          *)
(* decreases during the position and is never below the entry price.       *)
C27_HighWaterMark == []C27_State /\ [][C27_Step]_vars

C27_Witness ==
  /\ strategy.position_open
  /\ Cardinality(history.closes) >= 2
  /\ lastCall.op = "exit"
  /\ CalledRow.Close < strategy.highest_price
  /\ strategy.highest_price > strategy.entry_price

(* C30: once a bar has been evaluated for entry, every later entry_signal  *)
(* call on that bar returns no signal, whatever calls came in between, and *)
(* exit_signal likewise returns no signal on a bar it already evaluated.   *)
C30_Step ==
  /\ (lastCall'.op = "entry" /\ lastCall' # lastCall
      /\ lastCall'.name \in history.entry) => ~lastCall'.signal
  /\ (lastCall'.op = "exit" /\ lastCall' # lastCall
      /\ lastCall'.name \in history.exit) => ~lastCall'.signal

C30_EvaluatedOnce == [][C30_Step]_vars

-----------------------------------------------------------------------------
(* Fills of a run *)

Fills(T) ==
  Cardinality({ k \in 1..Len(trades) : trades[k].entry_time = T })
  + Cardinality({ k \in 1..Len(trades) : trades[k].exit_time = T })
  + Count(position # << >> /\ pc # "done" /\ position[1].entry_time = T)

(* C31: a backtest run makes at most one decision per bar: for every bar   *)
(* timestamp T at most one fill of the ledger, an entry or an exit, the    *)
(* forced close at the end of the data included, carries timestamp T.      *)
C31_OneFillPerBar ==
  Backtest => \A T \in Index(data) : Fills(T) <= 1

-----------------------------------------------------------------------------
(* Rows the decision loop sees *)

RecentRows == 5

(* C32: after calculate_indicators has run on a sequence at least as long  *)
(* as the longest lookback, every bar the caller iterates that is not one  *)
(* of the 5 most recent has all its rolling indicator fields defined.      *)
C32_EarlierBarsDefined ==
  (Backtest /\ pc \in {"loop", "done"} /\ data.indicators) =>
     \A p \in 0..(len(data) - RecentRows - 1) : ~Undefined(iloc(data, p))

-----------------------------------------------------------------------------
(* Live mode *)

(* C33: in live mode (is_backtest = False) entry_signal and exit_signal    *)
(* return no signal and leave the engine state unchanged on every bar that *)
(* is not the last bar of the data passed in.                              *)
C33_LiveOnlyLastBar ==
  (Poller /\ lastCall.op # "none" /\ ~lastCall.is_backtest
   /\ lastCall.name # Len(data.rows)) =>
     ~lastCall.signal /\ strategy = lastCall.before

C33_Witness ==
  /\ Poller
  /\ data.indicators
  /\ lastCall.op = "exit"
  /\ ~lastCall.is_backtest
  /\ lastCall.name < Len(data.rows)
  /\ lastCall.name <= now
  /\ lastCall.before.position_open
  /\ lastCall.before.last_entry_time # lastCall.name
  /\ Lt(CalledRow.macd, CalledRow.macd_signal)
  /\ strategy.position_open

-----------------------------------------------------------------------------
(* The live trading loop *)

Live == driver = "live"

(* C34: the live trading loop invokes entry_signal or exit_signal only in  *)
(* the first cycle that observes a given last-candle timestamp; a later    *)
(* cycle that observes the same timestamp makes no call and only waits.    *)
C34_OncePerCandle ==
  Live =>
     /\ live.cycle.calls # << >> => live.cycle.fresh
     /\ (live.cycle.candle.set /\ ~live.cycle.fresh) =>
           /\ ~live.cycle.evaluated
           /\ live.cycle.orders = << >>

C34_Witness ==
  /\ Live
  /\ live.cycle.candle.set
  /\ ~live.cycle.fresh
  /\ live.cycle.calls = << >>
  /\ strategy.position_open
  /\ Len(data.rows) = 2

(* C35: in every cycle in which the engine's entry_signal fires for the    *)
(* new candle and the investment amount and the volume reach their         *)
(* minimums, a buy order is attempted in that same cycle.                  *)
C35_EntryPlacesOrder ==
  (Live /\ live.cycle.fired /\ live.cycle.minimums) =>
     \E k \in 1..Len(live.cycle.orders) : live.cycle.orders[k] = "buy"

-----------------------------------------------------------------------------
(* The paper-trading loop *)

PaperLoop == driver = "paperloop"

(* C36: at the end of every cycle of the paper-trading loop the loop holds *)
(* an open position if and only if the Strategy is IN_POSITION.            *)
C36_LoopAgreesWithEngine ==
  (PaperLoop /\ paper.ended) =>
     ((paper.position # << >>) <=> strategy.position_open)

NetProfit(entry, exit, volume, b) ==
  FMul(exit - entry, volume) - RMul(FMul(entry + exit, volume), b.trade_fee)

(* rounding of the fixed-point products: 0.05 *)
RoundingTolerance == S \div 20

Within(a, b, tol) == a - b <= tol /\ b - a <= tol

(* C37: over a buy followed by the matching sell, the balance after the    *)
(* sell equals the balance before the buy plus the net profit              *)
(* (exit - entry) * volume - (entry + exit) * volume * fee.                *)
C37_BalanceByNetProfit ==
  (PaperLoop /\ paper.round.known /\ paper.round.closed) =>
     Within(paper.round.after,
            paper.round.before
              + NetProfit(paper.round.entry, paper.round.exit,
                          paper.round.volume, bt),
            RoundingTolerance)

-----------------------------------------------------------------------------
(* The retry decorator *)

Retry == driver = "retry"

Failed(outcome) == outcome.kind = "raise"

(* C38: a function wrapped once by retry(ExceptionToCheck, tries = n) is   *)
(* invoked at most n times per call; the first invocation that succeeds    *)
(* ends the call with its result, an exception outside ExceptionToCheck    *)
(* ends it at once, and after n failing invocations the last exception is  *)
(* raised to the caller.                                                   *)
C38_RetryBounded ==
  Retry =>
     LET n == Len(call.invocations)
     IN /\ n <= call.tries
        /\ \A k \in 1..n :
              (call.invocations[k].kind = "return"
               \/ call.invocations[k].value \notin ExceptionToCheck) =>
                 /\ k = n
                 /\ call.result = call.invocations[k]
                 /\ call.status = IF Failed(call.invocations[k])
                                  THEN "raised" ELSE "returned"
        /\ (n = call.tries /\ \A k \in 1..n : Failed(call.invocations[k])) =>
              call.status = "raised" /\ call.result = call.invocations[n]
        /\ call.status = "running" =>
              n < call.tries /\ call.result = << >>
        /\ call.status # "running" => call.result = call.invocations[n]

C38_Witness ==
  /\ Retry
  /\ call.tries = 3
  /\ Len(call.invocations) = 3
  /\ call.status = "raised"
  /\ call.result.value \in ExceptionToCheck
  /\ call.invocations[2].value # call.result.value

-----------------------------------------------------------------------------
(* The rate limiter *)

(* points of the recorded calls less than RATE_LIMIT_WINDOW seconds before *)
(* the call recorded last                                                  *)
PointsInWindow ==
  LET n == Len(limiter.times)
      recent == { k \in 1..n :
                    limiter.times[n] - limiter.times[k]
                      < RATE_LIMIT_WINDOW * TicksPerSecond }
  IN SumSeq([ k \in 1..n |-> IF k \in recent THEN limiter.points[k] ELSE 0 ])

(* C39: after any sequence of rate_limit_throttle calls the endpoint       *)
(* points of the calls recorded within a window of RATE_LIMIT_WINDOW       *)
(* seconds never exceed RATE_LIMIT_POINTS.                                 *)
C39_WithinLimit ==
  (driver = "limiter" /\ limiter.times # << >>) =>
     PointsInWindow <= RATE_LIMIT_POINTS

-----------------------------------------------------------------------------
(* The trade-download loop *)

Updater == driver = "updater"

C40_State ==
  (Updater /\ fetch.iterations > 0) =>
     /\ fetch.attempt <= 5
     /\ ~fetch.last.trades => fetch.status = "done"
     /\ (fetch.last.trades /\ fetch.last.last >= fetch.end_time) =>
           fetch.status = "done"
     /\ fetch.attempt >= 5 => fetch.status = "done"
     /\ fetch.status = "done" =>
           \/ ~fetch.last.trades
           \/ fetch.last.last >= fetch.end_time
           \/ fetch.attempt = 5

C40_Step ==
  (Updater /\ fetch' # fetch /\ fetch'.last.trades) =>
     fetch'.attempt = IF fetch'.last.last # fetch.since_ns THEN 0
                      ELSE fetch.attempt + 1

(* C40: the trade-download loop terminates: it stops as soon as a fetch    *)
(* fails, as soon as the returned cursor reaches the current time, or      *)
(* after 5 consecutive passes in which the cursor does not advance, and    *)
(* the stall counter is reset to 0 whenever the cursor advances.           *)
C40_Terminates ==
  /\ <>(fetch.status = "done")
  /\ []C40_State
  /\ [][C40_Step]_vars

C40_Witness ==
  /\ Updater
  /\ fetch.status = "done"
  /\ fetch.attempt = 5
  /\ fetch.iterations > 5
  /\ fetch.since_ns > fetch.start
  /\ fetch.since_ns < fetch.end_time

====
